---- MODULE Spec2Model ----
(***************************************************************************)
(* Model of the harmony mempool mirror: the pending pool actor             *)
(* (PendingPool.Start), its request handlers and its sorted indexes.       *)
(***************************************************************************)
EXTENDS Integers, Sequences, FiniteSets, TLC

\* ---------------------------------------------------------------- bounds
\* number of distinct tx hashes the callers may submit
NumTxs == 4
\* largest configured pending pool size explored
MaxPoolSize == 2
\* last reading of the wall clock explored
MaxTime == 2
\* number of distinct gas prices in the tx universe
NumGasPrices == 2

\* passes of the timed drain loop of a gossip writer within its duration
MaxWrites == 2

\* ------------------------------------------------------------ tx universe
Hashes == 1..NumTxs
Addresses == {1, 2}

\* sender, nonce and gas price are fixed by the hash (immutable fields
\* copied from the RPC node)
FromOf(h) == (((h - 1) \div 3) % 2) + 1
NonceOf(h) == IF (h - 1) % 3 = 2 THEN 1 ELSE 0
GasPriceOf(h) == ((h - 1) % NumGasPrices) + 1

\* removal reasons a RemoveRequest carries: DROPPED and CONFIRMED are the two
\* the pruner sends; PendingPool.Remove is public and forwards any TxStatus,
\* so "UNSTUCK" stands for every status that is neither of them
Statuses == {"CONFIRMED", "DROPPED", "UNSTUCK"}

\* type MemPoolTx struct: the fields the pool works with, the mutable ones
\* zero as the caller hands the tx over
MemPoolTx(h) ==
    [Hash |-> h, From |-> FromOf(h), Nonce |-> NonceOf(h),
     GasPrice |-> GasPriceOf(h), PendingFrom |-> 0, QueuedAt |-> 0, Pool |-> ""]

\* fields the event loop (tx.DroppedAt, tx.ConfirmedAt) and the gossip reader
\* (tx.ReceivedFrom) write, which the struct above does not declare
LaterFields == [DroppedAt |-> 0, ConfirmedAt |-> 0, ReceivedFrom |-> 0]

\* the tx as the event loop and the gossip sessions hold it
PoolTx(h) == MemPoolTx(h) @@ LaterFields

VARIABLES
    Transactions,       \* map hash -> tx
    TxsFromAddress,     \* map address -> list sorted by (nonce, gas price desc, hash)
    DroppedTxs,         \* tombstones of evicted txs
    AscTxsByGasPrice,   \* list, ascending gas price
    DescTxsByGasPrice,  \* list, descending gas price
    PendingPoolSize,    \* config.GetPendingPoolSize()
    now,                \* time.Now().UTC()
    last,               \* the request the actor served last and its reply
    adds,               \* hashes added so far while every request was an
                        \* Add of a new tx in non-decreasing gas price order
    Lock,               \* app/data PendingPool.Lock: the caller holding it, 0 if free
    callers,            \* app/data PendingPool: where each caller of Add/Remove is
    connected,          \* connectionManager: the peers tracked as connected
    handler,            \* HandleStream, per stream: position, ctx, stream, spawns
    reader,             \* ReadFrom, per stream
    writer,             \* WriteTo, per stream
    queued,             \* per stream: the messages queued in the writer's subscriber
    wire,               \* per stream: the frames written to the peer
    ctx,                \* main: the root cancellation token
    comm,               \* main: the channel the poller signals the supervisor on
    resources,          \* bootup.SetGround: the RPC client and the bus client
    supervisor,         \* main: where the supervisor goroutine is
    poller,             \* PollTxPoolContent: where the poller is
    actor,              \* PendingPool.Start: the event loop, running or returned
    clients,            \* callers of the pool's channel methods
    codec,              \* a tx on its way through ToMessagePack and FromMessagePack
    answer,             \* a caller of the pool's derived queries and what it got
    pruner,             \* PendingPool.Prune: its loop, its worker pool, internalChan
    confirmer,          \* app/data PendingPool.RemoveConfirmed: where its caller is
    held                \* a reader and the sequence a List or TxsFromA reply gave it

actorVars == <<Transactions, TxsFromAddress, DroppedTxs, AscTxsByGasPrice,
               DescTxsByGasPrice, PendingPoolSize, now, last, adds>>

lockedVars == <<Lock, callers>>

gossipVars == <<connected, handler, reader, writer, queued, wire>>

mainVars == <<ctx, comm, resources, supervisor, poller, actor, clients>>

queryVars == <<codec, answer>>

callerVars == <<pruner, confirmer, held>>

vars == <<actorVars, lockedVars, gossipVars, mainVars, queryVars, callerVars>>

poolVars == <<Transactions, TxsFromAddress, DroppedTxs, AscTxsByGasPrice,
              DescTxsByGasPrice>>

\* ---------------------------------------------------------- sorted index
\* ordering of the ascending gas price list: by gas price, ties by hash
AscLess(a, b) ==
    \/ a.GasPrice < b.GasPrice
    \/ a.GasPrice = b.GasPrice /\ a.Hash < b.Hash

\* the descending list holds the reverse order
DescLess(a, b) == AscLess(b, a)

\* ordering key of a sender's list: (nonce, gas price descending, hash)
FromLess(a, b) ==
    \/ a.Nonce < b.Nonce
    \/ a.Nonce = b.Nonce /\ a.GasPrice > b.GasPrice
    \/ a.Nonce = b.Nonce /\ a.GasPrice = b.GasPrice /\ a.Hash < b.Hash

Less(kind, a, b) ==
    CASE kind = "asc" -> AscLess(a, b)
      [] kind = "desc" -> DescLess(a, b)
      [] OTHER -> FromLess(a, b)

\* first position whose element sorts after tx; Len+1 when there is none
findInsertionPoint(kind, txs, tx) ==
    IF \E i \in 1..Len(txs) : Less(kind, tx, txs[i])
    THEN CHOOSE i \in 1..Len(txs) :
            /\ Less(kind, tx, txs[i])
            /\ \A j \in 1..(i - 1) : ~Less(kind, tx, txs[j])
    ELSE Len(txs) + 1

\* position of the entry of tx (same hash); 0 when it is not in the list
findTx(txs, tx) ==
    IF \E i \in 1..Len(txs) : txs[i].Hash = tx.Hash
    THEN CHOOSE i \in 1..Len(txs) :
            /\ txs[i].Hash = tx.Hash
            /\ \A j \in 1..(i - 1) : txs[j].Hash # tx.Hash
    ELSE 0

Insert(kind, txs, tx) ==
    LET idx == findInsertionPoint(kind, txs, tx)
    IN  SubSeq(txs, 1, idx - 1) \o <<tx>> \o SubSeq(txs, idx, Len(txs))

Remove(txs, tx) ==
    LET idx == findTx(txs, tx)
    IN  IF idx = 0 THEN txs
        ELSE SubSeq(txs, 1, idx - 1) \o SubSeq(txs, idx + 1, Len(txs))

\* ------------------------------------------------------- pool, as a value
Pool ==
    [Transactions |-> Transactions, TxsFromAddress |-> TxsFromAddress,
     DroppedTxs |-> DroppedTxs, AscTxsByGasPrice |-> AscTxsByGasPrice,
     DescTxsByGasPrice |-> DescTxsByGasPrice]

hasBeenAllocatedFor(p, addr) == addr \in DOMAIN p.TxsFromAddress

allocateFor(p, addr) ==
    IF hasBeenAllocatedFor(p, addr) THEN p.TxsFromAddress[addr] ELSE <<>>

\* variant: the check forgets the tx about to be added
needToDropTxs_OffByOne(p, size) == Len(p.AscTxsByGasPrice) > size

needToDropTxs(p, size) == Len(p.AscTxsByGasPrice) + 1 > size

\* variant: picks the tail of the ascending list
pickTxWithLowestGasPrice_Tail(p) == p.AscTxsByGasPrice[Len(p.AscTxsByGasPrice)]

pickTxWithLowestGasPrice(p) == p.AscTxsByGasPrice[1]

\* variant: the descending list is kept in ascending order
addTx_DescAscending(p, tx) ==
    [p EXCEPT
        !.AscTxsByGasPrice = Insert("asc", p.AscTxsByGasPrice, tx),
        !.DescTxsByGasPrice = Insert("asc", p.DescTxsByGasPrice, tx),
        !.TxsFromAddress =
            [a \in (DOMAIN p.TxsFromAddress) \cup {tx.From} |->
                IF a = tx.From THEN Insert("from", allocateFor(p, a), tx)
                ELSE p.TxsFromAddress[a]],
        !.Transactions =
            [h \in (DOMAIN p.Transactions) \cup {tx.Hash} |->
                IF h = tx.Hash THEN tx ELSE p.Transactions[h]]]

\* variant: a tx priced below every tx of the pool is not taken in
addTx_UnlessLowest(p, tx) ==
    IF p.AscTxsByGasPrice # <<>> /\ tx.GasPrice < p.AscTxsByGasPrice[1].GasPrice
    THEN p
    ELSE
    [p EXCEPT
        !.AscTxsByGasPrice = Insert("asc", p.AscTxsByGasPrice, tx),
        !.DescTxsByGasPrice = Insert("desc", p.DescTxsByGasPrice, tx),
        !.TxsFromAddress =
            [a \in (DOMAIN p.TxsFromAddress) \cup {tx.From} |->
                IF a = tx.From THEN Insert("from", allocateFor(p, a), tx)
                ELSE p.TxsFromAddress[a]],
        !.Transactions =
            [h \in (DOMAIN p.Transactions) \cup {tx.Hash} |->
                IF h = tx.Hash THEN tx ELSE p.Transactions[h]]]

\* variant: the descending list is not updated
addTx_NoDesc(p, tx) ==
    [p EXCEPT
        !.AscTxsByGasPrice = Insert("asc", p.AscTxsByGasPrice, tx),
        !.TxsFromAddress =
            [a \in (DOMAIN p.TxsFromAddress) \cup {tx.From} |->
                IF a = tx.From THEN Insert("from", allocateFor(p, a), tx)
                ELSE p.TxsFromAddress[a]],
        !.Transactions =
            [h \in (DOMAIN p.Transactions) \cup {tx.Hash} |->
                IF h = tx.Hash THEN tx ELSE p.Transactions[h]]]

addTx(p, tx) ==
    [p EXCEPT
        !.AscTxsByGasPrice = Insert("asc", p.AscTxsByGasPrice, tx),
        !.DescTxsByGasPrice = Insert("desc", p.DescTxsByGasPrice, tx),
        !.TxsFromAddress =
            [a \in (DOMAIN p.TxsFromAddress) \cup {tx.From} |->
                IF a = tx.From THEN Insert("from", allocateFor(p, a), tx)
                ELSE p.TxsFromAddress[a]],
        !.Transactions =
            [h \in (DOMAIN p.Transactions) \cup {tx.Hash} |->
                IF h = tx.Hash THEN tx ELSE p.Transactions[h]]]

\* variant: the sender's list is not updated
removeTx_KeepsSenderList(p, tx) ==
    [p EXCEPT
        !.AscTxsByGasPrice = Remove(p.AscTxsByGasPrice, tx),
        !.DescTxsByGasPrice = Remove(p.DescTxsByGasPrice, tx),
        !.Transactions =
            [h \in (DOMAIN p.Transactions) \ {tx.Hash} |-> p.Transactions[h]]]

removeTx(p, tx) ==
    [p EXCEPT
        !.AscTxsByGasPrice = Remove(p.AscTxsByGasPrice, tx),
        !.DescTxsByGasPrice = Remove(p.DescTxsByGasPrice, tx),
        !.TxsFromAddress =
            [a \in (DOMAIN p.TxsFromAddress) \cup {tx.From} |->
                IF a = tx.From THEN Remove(allocateFor(p, a), tx)
                ELSE p.TxsFromAddress[a]],
        !.Transactions =
            [h \in (DOMAIN p.Transactions) \ {tx.Hash} |-> p.Transactions[h]]]

\* variant: the victim is marked dropped but not removed
dropTx_NoRemove(p, tx) == [p EXCEPT !.DroppedTxs = p.DroppedTxs \cup {tx.Hash}]

dropTx(p, tx) ==
    LET q == removeTx(p, tx)
    IN  [q EXCEPT !.DroppedTxs = q.DroppedTxs \cup {tx.Hash}]

\* variant: only the tombstones are consulted
isKnown_IgnoresPool(p, tx) == tx.Hash \in p.DroppedTxs

\* variant: only the primary map is consulted
isKnown_IgnoresDropped(p, tx) == tx.Hash \in DOMAIN p.Transactions

\* txAdder rejects a tx that is in the pool or was dropped before
isKnown(p, tx) == tx.Hash \in DOMAIN p.Transactions \/ tx.Hash \in p.DroppedTxs

\* pool after the optional eviction of txAdder
afterDrop(p, size) ==
    IF needToDropTxs(p, size) THEN dropTx(p, pickTxWithLowestGasPrice(p)) ELSE p


\* the tx as txAdder stamps it
stampAdded(tx, t) == [tx EXCEPT !.PendingFrom = t, !.Pool = "pending"]

\* the tx as txRemover marks it from the removal reason
stampRemoved(tx, status, t) ==
    IF status = "DROPPED" THEN [tx EXCEPT !.Pool = "dropped", !.DroppedAt = t]
    ELSE IF status = "CONFIRMED" THEN [tx EXCEPT !.Pool = "confirmed", !.ConfirmedAt = t]
    ELSE tx

\* how a publish attempt may end: the tx is serialized and the bus takes it,
\* ToMessagePack fails, or pubsub.Publish fails
PublishOutcomes == {"ok", "marshal_error", "publish_error"}

\* messages handed to the bus (pubsub.Publish calls) by one publish attempt:
\* none when the tx could not be serialized
PublishAdded(tx, out) ==
    IF out = "marshal_error" THEN <<>>
    ELSE <<[topic |-> "pending_pool_entry", tx |-> tx]>>

\* variant: the exit event goes to the entry topic
PublishRemoved_EntryTopic(tx, out) ==
    IF out = "marshal_error" THEN <<>>
    ELSE <<[topic |-> "pending_pool_entry", tx |-> tx]>>

PublishRemoved(tx, out) ==
    IF out = "marshal_error" THEN <<>>
    ELSE <<[topic |-> "pending_pool_exit", tx |-> tx]>>

\* variant: a failed publish turns the reply into false
replyAfterPublish_FalseOnError(out) == out = "ok"

\* txAdder and txRemover return true after the publish attempt, whatever
\* its outcome
replyAfterPublish(out) == TRUE

\* variant: the ascending list is returned for every order
listTxs_AlwaysAsc(p, order) == p.AscTxsByGasPrice

\* the list a ListRequest is answered with
listTxs(p, order) ==
    IF order = "ASC" THEN p.AscTxsByGasPrice ELSE p.DescTxsByGasPrice

\* ------------------------------------------------------------- the actor
NoReply ==
    [op |-> "none", hash |-> 0, addr |-> 0, status |-> "", order |-> "", ok |-> FALSE, n |-> 0,
     txs |-> <<>>, victim |-> <<>>, published |-> <<>>, bus |-> "", tx |-> <<>>]

SetPool(p) ==
    /\ Transactions' = p.Transactions
    /\ TxsFromAddress' = p.TxsFromAddress
    /\ DroppedTxs' = p.DroppedTxs
    /\ AscTxsByGasPrice' = p.AscTxsByGasPrice
    /\ DescTxsByGasPrice' = p.DescTxsByGasPrice

\* the pool as its constructor leaves it, which is not part of the sources at
\* hand: an empty map, empty lists and an empty tombstone set. The capacity is
\* config.GetPendingPoolSize(), not part of the sources either, taken to be at
\* least 1 (for 0 the first Add would index the empty ascending list). The
\* wall clock reads t0.
ActorInit(t0) ==
    /\ Transactions = <<>>
    /\ TxsFromAddress = <<>>
    /\ DroppedTxs = {}
    /\ AscTxsByGasPrice = <<>>
    /\ DescTxsByGasPrice = <<>>
    /\ PendingPoolSize \in 1..MaxPoolSize
    /\ now = t0
    /\ last = NoReply
    /\ adds = [inOrder |-> TRUE, hashes |-> {}]

Callers == {1, 2}

Idle == [at |-> "idle", op |-> "", hash |-> 0, handed |-> <<>>, ok |-> FALSE, n |-> 0]

\* nobody is calling the lock-based pool
LockedInit ==
    /\ Lock = 0
    /\ callers = [c \in Callers |-> Idle]

Peers == {1, 2}

Streams == {1, 2, 3}

\* stream.Conn().RemotePeer(): streams 1 and 3 come from the same peer
PeerOf(s) == IF s = 2 THEN 2 ELSE 1

\* the tx peers send frames of
PeerTxs == {1}

\* owed: the txs the pool accepted from another peer while this session was
\* registered
NoHandler ==
    [at |-> "idle", cancelled |-> FALSE, closed |-> FALSE, readers |-> 0, writers |-> 0,
     owed |-> {}]

\* readErr: err of the io.ReadFull of this iteration; tx: the tx the iteration
\* decoded and has not handed to the pool yet
NoReader == [at |-> "none", readErr |-> FALSE, health |-> "none", tx |-> <<>>]

NoWriter ==
    [at |-> "none", received |-> <<>>, n |-> 0, writeErr |-> FALSE, health |-> "none"]

\* no stream has arrived
GossipInit ==
    /\ connected = {}
    /\ handler = [s \in Streams |-> NoHandler]
    /\ reader = [s \in Streams |-> NoReader]
    /\ writer = [s \in Streams |-> NoWriter]
    /\ queued = [s \in Streams |-> <<>>]
    /\ wire = [s \in Streams |-> <<>>]

Clients == {1, 2}

NoRequest == [at |-> "idle", op |-> "", hash |-> 0]

\* main after bootup.SetGround and the two go statements: the token live, the
\* channel open, both clients open, supervisor in its select, poller calling
MainInit ==
    /\ ctx = "live"
    /\ comm = [closed |-> FALSE, closes |-> 0]
    /\ resources = [RPCClient |-> "open", Redis |-> "open"]
    /\ supervisor = [at |-> "select", woke |-> ""]
    /\ poller = [at |-> "calling", polls |-> 0, cause |-> "", err |-> <<>>, todo |-> {}]
    /\ clients = [c \in Clients |-> NoRequest]

\* the event loop of the pending pool has been started and serves requests
\* (go pool.Pending.Start(ctx); the statement is not part of the sources at
\* hand)
ActorStarted == actor = "running"

\* the mutable fields a tx may carry when it is serialized
PoolNames == {"pending", "queued", "confirmed", "dropped"}

NoCodec == [at |-> "none", tx |-> <<>>, data |-> <<>>, decoded |-> <<>>, err |-> FALSE]

NoAnswer ==
    [op |-> "none", at |-> "idle", target |-> <<>>, x |-> 0, result |-> <<>>,
     panic |-> FALSE]

\* nothing is being serialized, nobody is asking
QueryInit ==
    /\ codec = NoCodec
    /\ answer = NoAnswer

\* Prune waits in its select: no batch, no job in the worker pool (jobs counts
\* the submitted jobs of each tx that no worker has finished), nothing on
\* internalChan
NoPruner ==
    [at |-> "select", batches |-> 0, batch |-> <<>>, target |-> <<>>,
     alreadyAddedFromA |-> [a \in {} |-> 0], prunables |-> <<>>,
     jobs |-> [h \in Hashes |-> 0], internalChan |-> <<>>]

\* nobody is in RemoveConfirmed
NoConfirmer ==
    [at |-> "idle", rlocked |-> FALSE, mustReceive |-> 0, jobs |-> {}, buffer |-> {}]

\* the reader holds no sequence
NoSource == [op |-> "", order |-> "", addr |-> 0]
\* txRemover is in none of its calls
NoRemover == [at |-> "idle", status |-> "", tx |-> <<>>]
NoHeld ==
    [at |-> "none", of |-> NoSource, alias |-> FALSE, txs |-> <<>>, live |-> {},
     first |-> <<>>, read |-> <<>>, remover |-> NoRemover]

CallerInit ==
    /\ pruner = NoPruner
    /\ confirmer = NoConfirmer
    /\ held = NoHeld

Init == ActorInit(1) /\ LockedInit /\ GossipInit /\ MainInit /\ ActorStarted /\ QueryInit /\ CallerInit

\* a reading of the wall clock: never before the previous reading
Clock == {t \in {now, now + 1} : t <= MaxTime}

\* bookkeeping of the run of ordered Adds
MaxGasPriceOf(S) ==
    IF S = {} THEN 0
    ELSE CHOOSE g \in {GasPriceOf(h) : h \in S} : \A h \in S : GasPriceOf(h) <= g

addsAfterAdd(h) ==
    IF adds.inOrder /\ h \notin adds.hashes /\ GasPriceOf(h) >= MaxGasPriceOf(adds.hashes)
    THEN [inOrder |-> TRUE, hashes |-> adds.hashes \cup {h}]
    ELSE [inOrder |-> FALSE, hashes |-> {}]

\* variant: the evicted tx is marked as a removed one is
evicted_MarksDropped(tx) == [tx EXCEPT !.Pool = "dropped"]

\* dropTx(tx): the record of the victim, no field of which is written
evicted(tx) == tx

\* txAdder := func(tx *MemPoolTx) bool, and the reply it sends
txAdder(tx, out) ==
    /\ IF isKnown(Pool, tx)
       THEN /\ UNCHANGED <<poolVars, now>>
            /\ last' = [NoReply EXCEPT !.op = "Add", !.hash = tx.Hash, !.tx = <<tx>>]
       ELSE \E t \in Clock :
            LET q == afterDrop(Pool, PendingPoolSize)
                stamped == stampAdded(tx, t)
            IN  /\ SetPool(addTx(q, stamped))
                /\ now' = t
                /\ last' = [NoReply EXCEPT
                        !.op = "Add", !.hash = tx.Hash, !.ok = replyAfterPublish(out),
                        !.victim = IF needToDropTxs(Pool, PendingPoolSize)
                                   THEN <<evicted(pickTxWithLowestGasPrice(Pool))>> ELSE <<>>,
                        !.published = PublishAdded(stamped, out), !.bus = out,
                        !.tx = <<stamped>>]
    /\ adds' = addsAfterAdd(tx.Hash)
    /\ UNCHANGED PendingPoolSize

\* case req := <-p.AddTxChan: req.ResponseChan <- txAdder(req.Tx)
AddTxChan(h, out) ==
    /\ txAdder(PoolTx(h), out)
    /\ UNCHANGED <<lockedVars, gossipVars, mainVars, queryVars, callerVars>>

\* variant: the removed tx leaves a tombstone, as an evicted one does
removed_Tombstone(p, marked) == dropTx(p, marked)

\* txRemover: removeTx(tx) and nothing else is done to the pool
removed(p, marked) == removeTx(p, marked)

\* txRemover: emptying the maps and lists of the tx, then publishing it
txRemover(h, status, out) ==
    /\ IF h \notin DOMAIN Transactions
       THEN /\ UNCHANGED <<poolVars, now>>
            /\ last' = [NoReply EXCEPT !.op = "Remove", !.hash = h, !.status = status]
       ELSE \E t \in Clock :
            LET marked == stampRemoved(Transactions[h], status, t)
            IN  /\ SetPool(removed(Pool, marked))
                /\ now' = t
                /\ last' = [NoReply EXCEPT
                        !.op = "Remove", !.hash = h, !.status = status,
                        !.ok = replyAfterPublish(out),
                        !.published = PublishRemoved(marked, out), !.bus = out,
                        !.tx = <<marked>>]
    /\ adds' = [inOrder |-> FALSE, hashes |-> {}]
    /\ UNCHANGED PendingPoolSize

\* case req := <-p.RemoveTxChan: req.ResponseChan <- txRemover(req.TxStat)
RemoveTxChan(h, status, out) ==
    /\ txRemover(h, status, out)
    /\ UNCHANGED <<lockedVars, gossipVars, mainVars, queryVars, callerVars>>

\* case req := <-p.TxExistsChan
TxExistsChan(h) ==
    /\ last' = [NoReply EXCEPT !.op = "Exists", !.hash = h,
                               !.ok = (h \in DOMAIN Transactions)]
    /\ UNCHANGED <<poolVars, PendingPoolSize, now, adds, lockedVars, gossipVars, mainVars, queryVars, callerVars>>

\* case req := <-p.GetTxChan
GetTxChan(h) ==
    /\ last' = [NoReply EXCEPT !.op = "Get", !.hash = h,
                               !.ok = (h \in DOMAIN Transactions),
                               !.txs = IF h \in DOMAIN Transactions
                                       THEN <<Transactions[h]>> ELSE <<>>]
    /\ UNCHANGED <<poolVars, PendingPoolSize, now, adds, lockedVars, gossipVars, mainVars, queryVars, callerVars>>

\* case req := <-p.CountTxsChan
CountTxsChan ==
    /\ last' = [NoReply EXCEPT !.op = "Count", !.n = Len(AscTxsByGasPrice)]
    /\ UNCHANGED <<poolVars, PendingPoolSize, now, adds, lockedVars, gossipVars, mainVars, queryVars, callerVars>>

\* case req := <-p.ListTxsChan
ListTxsChan(order) ==
    /\ last' = [NoReply EXCEPT !.op = "List", !.order = order,
                               !.txs = listTxs(Pool, order)]
    /\ UNCHANGED <<poolVars, PendingPoolSize, now, adds, lockedVars, gossipVars, mainVars, queryVars, callerVars>>

\* case req := <-p.TxsFromAChan
TxsFromAChan(addr) ==
    /\ last' = [NoReply EXCEPT !.op = "TxsFromA", !.addr = addr,
                               !.txs = IF addr \in DOMAIN TxsFromAddress
                                       THEN TxsFromAddress[addr] ELSE <<>>]
    /\ UNCHANGED <<poolVars, PendingPoolSize, now, adds, lockedVars, gossipVars, mainVars, queryVars, callerVars>>

\* the actor served by a bus that takes every message
Next ==
    \/ \E h \in Hashes : AddTxChan(h, "ok")
    \/ \E h \in Hashes, s \in Statuses : RemoveTxChan(h, s, "ok")
    \/ \E h \in Hashes : TxExistsChan(h)
    \/ \E h \in Hashes : GetTxChan(h)
    \/ CountTxsChan
    \/ \E o \in {"ASC", "DESC"} : ListTxsChan(o)
    \/ \E a \in Addresses : TxsFromAChan(a)

Spec == Init /\ [][Next]_vars

\* the actor's writers with a bus and a serializer that may fail, all clock
\* readings equal
InitBus == ActorInit(MaxTime) /\ LockedInit /\ GossipInit /\ MainInit /\ ActorStarted /\ QueryInit /\ CallerInit

NextBus ==
    \/ \E h \in Hashes, out \in PublishOutcomes : AddTxChan(h, out)
    \/ \E h \in Hashes, s \in Statuses, out \in PublishOutcomes :
            RemoveTxChan(h, s, out)

SpecBus == InitBus /\ [][NextBus]_vars

\* ---- the pool of app/data/pending.go: a map behind a read-write lock ----

\* p.Transactions[tx.Hash] = tx
putTx(txs, tx) ==
    [h \in DOMAIN txs \cup {tx.Hash} |-> IF h = tx.Hash THEN tx ELSE txs[h]]

\* delete(p.Transactions, txHash)
deleteTx(txs, hash) == [h \in DOMAIN txs \ {hash} |-> txs[h]]

\* Add: p.Lock.Lock()
Add_Lock(c, h) ==
    /\ callers[c].at = "idle" /\ Lock = 0 /\ ~confirmer.rlocked
    /\ Lock' = c
    /\ callers' = [callers EXCEPT ![c] = [Idle EXCEPT !.at = "locked", !.op = "Add", !.hash = h]]
    /\ UNCHANGED <<actorVars, gossipVars, mainVars, queryVars, callerVars>>

\* Add: return false for a tx already present, else stamp it and create the entry
Add_Insert(c) ==
    /\ callers[c].at = "locked" /\ callers[c].op = "Add"
    /\ IF callers[c].hash \in DOMAIN Transactions
       THEN /\ Lock' = 0
            /\ callers' = [callers EXCEPT ![c] = Idle]
            /\ UNCHANGED Transactions
       ELSE /\ Transactions' = putTx(Transactions, stampAdded(PoolTx(callers[c].hash), now))
            /\ callers' = [callers EXCEPT ![c].at = "mutated"]
            /\ UNCHANGED Lock
    /\ UNCHANGED <<TxsFromAddress, DroppedTxs, AscTxsByGasPrice, DescTxsByGasPrice,
                   PendingPoolSize, now, last, adds, gossipVars, mainVars, queryVars, callerVars>>

\* Add: p.PublishAdded(ctx, pubsub, tx)
Add_PublishAdded(c, out) ==
    /\ callers[c].at = "mutated" /\ callers[c].op = "Add"
    /\ callers' = [callers EXCEPT
            ![c].at = "published",
            ![c].handed = PublishAdded(Transactions[callers[c].hash], out)]
    /\ UNCHANGED <<Lock, actorVars, gossipVars, mainVars, queryVars, callerVars>>

\* Add: return true, the deferred p.Lock.Unlock()
Add_Return(c) ==
    /\ callers[c].at = "published" /\ callers[c].op = "Add"
    /\ Lock' = 0
    /\ callers' = [callers EXCEPT ![c] = [Idle EXCEPT !.ok = TRUE]]
    /\ UNCHANGED <<actorVars, gossipVars, mainVars, queryVars, callerVars>>

\* Remove: p.Lock.Lock()
Remove_Lock(c, h) ==
    /\ callers[c].at = "idle" /\ Lock = 0 /\ ~confirmer.rlocked
    /\ Lock' = c
    /\ callers' = [callers EXCEPT ![c] = [Idle EXCEPT !.at = "locked", !.op = "Remove", !.hash = h]]
    /\ UNCHANGED <<actorVars, gossipVars, mainVars, queryVars, callerVars>>

\* Remove: return false for a tx that is not present
Remove_Check(c) ==
    /\ callers[c].at = "locked" /\ callers[c].op = "Remove"
    /\ IF callers[c].hash \notin DOMAIN Transactions
       THEN /\ Lock' = 0
            /\ callers' = [callers EXCEPT ![c] = Idle]
       ELSE /\ callers' = [callers EXCEPT ![c].at = "found"]
            /\ UNCHANGED Lock
    /\ UNCHANGED <<actorVars, gossipVars, mainVars, queryVars, callerVars>>

\* Remove: p.PublishRemoved(ctx, pubsub, p.Transactions[txHash])
Remove_PublishRemoved(c, out) ==
    /\ callers[c].at = "found" /\ callers[c].op = "Remove"
    /\ callers' = [callers EXCEPT
            ![c].at = "published",
            ![c].handed = PublishRemoved(Transactions[callers[c].hash], out)]
    /\ UNCHANGED <<Lock, actorVars, gossipVars, mainVars, queryVars, callerVars>>

\* Remove: delete(p.Transactions, txHash)
Remove_Delete(c) ==
    /\ callers[c].at = "published" /\ callers[c].op = "Remove"
    /\ Transactions' = deleteTx(Transactions, callers[c].hash)
    /\ callers' = [callers EXCEPT ![c].at = "mutated"]
    /\ UNCHANGED <<Lock, TxsFromAddress, DroppedTxs, AscTxsByGasPrice, DescTxsByGasPrice,
                   PendingPoolSize, now, last, adds, gossipVars, mainVars, queryVars, callerVars>>

\* Remove: return true, the deferred p.Lock.Unlock()
Remove_Return(c) ==
    /\ callers[c].at = "mutated" /\ callers[c].op = "Remove"
    /\ Lock' = 0
    /\ callers' = [callers EXCEPT ![c] = [Idle EXCEPT !.ok = TRUE]]
    /\ UNCHANGED <<actorVars, gossipVars, mainVars, queryVars, callerVars>>

\* Count: the size of the map, read under the read lock
Count(c) ==
    /\ callers[c].at = "idle" /\ Lock = 0
    /\ callers' = [callers EXCEPT ![c] = [Idle EXCEPT !.op = "Count",
                                                      !.n = Cardinality(DOMAIN Transactions)]]
    /\ UNCHANGED <<Lock, actorVars, gossipVars, mainVars, queryVars, callerVars>>

\* the lock-based pool has no capacity: the setting is not read
InitLocked ==
    /\ ActorInit(MaxTime) /\ PendingPoolSize = MaxPoolSize /\ LockedInit /\ GossipInit
    /\ MainInit /\ ActorStarted /\ QueryInit /\ CallerInit

NextLocked ==
    \/ \E c \in Callers, h \in Hashes : Add_Lock(c, h)
    \/ \E c \in Callers : Add_Insert(c)
    \/ \E c \in Callers, out \in PublishOutcomes : Add_PublishAdded(c, out)
    \/ \E c \in Callers : Add_Return(c)
    \/ \E c \in Callers, h \in Hashes : Remove_Lock(c, h)
    \/ \E c \in Callers : Remove_Check(c)
    \/ \E c \in Callers, out \in PublishOutcomes : Remove_PublishRemoved(c, out)
    \/ \E c \in Callers : Remove_Delete(c)
    \/ \E c \in Callers : Remove_Return(c)
    \/ \E c \in Callers : Count(c)

SpecLocked == InitLocked /\ [][NextLocked]_vars

\* what the node may answer to the probe of a tx: the call fails, or it gives
\* the sender's account nonce and whether the tx is in a mined block (then the
\* account nonce is past every nonce of the universe)
Probes ==
    {r \in [err : BOOLEAN, accountNonce : 0..2, mined : BOOLEAN] :
        /\ r.err => (r.accountNonce = 0 /\ ~r.mined)
        /\ r.mined => r.accountNonce = 2}

\* m.IsNonceExhausted(ctx, rpc): m.Nonce < result, false next to an error
IsNonceExhausted(tx, r) ==
    [yes |-> ~r.err /\ tx.Nonce < r.accountNonce, err |-> r.err]

\* RemoveConfirmed: if len(p.Transactions) == 0 { return 0 }, read before
\* the lock is taken and whoever holds it
RemoveConfirmed_Check ==
    /\ confirmer.at = "idle"
    /\ confirmer' = [confirmer EXCEPT
            !.at = IF DOMAIN Transactions = {} THEN "idle" ELSE "checked"]
    /\ UNCHANGED <<pruner, held, actorVars, lockedVars, gossipVars, mainVars, queryVars>>

\* RemoveConfirmed: p.Lock.RLock(), one job per tx the map holds now, and
\* mustReceive := len(p.Transactions)
RemoveConfirmed_RLock ==
    /\ confirmer.at = "checked" /\ Lock = 0
    /\ confirmer' = [at |-> "probing", rlocked |-> TRUE,
                     mustReceive |-> Cardinality(DOMAIN Transactions),
                     jobs |-> DOMAIN Transactions, buffer |-> {}]
    /\ UNCHANGED <<pruner, held, actorVars, lockedVars, gossipVars, mainVars, queryVars>>

\* RemoveConfirmed: a worker probes a tx, the loop receives its TxStatus
RemoveConfirmed_Probe(h, r) ==
    /\ confirmer.at = "probing" /\ h \in confirmer.jobs
    /\ confirmer' = [confirmer EXCEPT
            !.jobs = @ \ {h},
            !.buffer = IF IsNonceExhausted(Transactions[h], r).yes THEN @ \cup {h} ELSE @]
    /\ UNCHANGED <<pruner, held, actorVars, lockedVars, gossipVars, mainVars, queryVars>>

\* RemoveConfirmed: the loop over commChan leaves once a status came in and
\* received >= mustReceive; wp.Stop() and p.Lock.RUnlock()
RemoveConfirmed_RUnlock ==
    /\ confirmer.at = "probing" /\ confirmer.jobs = {}
    /\ confirmer.mustReceive > 0
    /\ confirmer' = [confirmer EXCEPT
            !.rlocked = FALSE,
            !.at = IF confirmer.buffer = {} THEN "idle" ELSE "removing"]
    /\ UNCHANGED <<pruner, held, actorVars, lockedVars, gossipVars, mainVars, queryVars>>

\* RemoveConfirmed: p.Remove(ctx, pubsub, v) for a hash of the buffer
RemoveConfirmed_Remove(h) ==
    /\ confirmer.at = "removing" /\ h \in confirmer.buffer
    /\ Lock = 0
    /\ Transactions' = deleteTx(Transactions, h)
    /\ confirmer' = [confirmer EXCEPT
            !.buffer = @ \ {h},
            !.at = IF confirmer.buffer = {h} THEN "idle" ELSE "removing"]
    /\ UNCHANGED <<pruner, held, lockedVars, gossipVars, mainVars, queryVars,
                   TxsFromAddress, DroppedTxs, AscTxsByGasPrice, DescTxsByGasPrice,
                   PendingPoolSize, now, last, adds>>

NextConfirm ==
    \/ NextLocked
    \/ RemoveConfirmed_Check
    \/ RemoveConfirmed_RLock
    \/ \E h \in Hashes, r \in Probes : RemoveConfirmed_Probe(h, r)
    \/ RemoveConfirmed_RUnlock
    \/ \E h \in Hashes : RemoveConfirmed_Remove(h)

SpecConfirm == InitLocked /\ [][NextConfirm]_vars

\* ---- peer gossip: HandleStream, ReadFrom and WriteTo of package networking ----

IsConnected(peer) == peer \in connected

Added(peer) == connected \cup {peer}

Dropped(peer) == connected \ {peer}

\* the bus pushes a published entry message to every subscribed writer
Deliver(published, out) ==
    [s \in Streams |->
        IF published # <<>> /\ out = "ok" /\ writer[s].at \in {"watching", "draining"}
        THEN Append(queued[s], published[1].tx)
        ELSE queued[s]]

\* the duplicate-stream decision of HandleStream
HandleStream_branch_SpawnsAlways(isConnected) == "checked"

HandleStream_branch(isConnected) == IF isConnected THEN "duplicate" ELSE "checked"

\* HandleStream: if connectionManager.IsConnected(peerId)
HandleStream_IsConnected(s) ==
    /\ handler[s].at = "idle"
    /\ handler' = [handler EXCEPT ![s].at = HandleStream_branch(IsConnected(PeerOf(s)))]
    /\ UNCHANGED <<connected, reader, writer, queued, wire, actorVars, lockedVars, mainVars, queryVars, callerVars>>

\* HandleStream on a duplicate stream: stream.Close()
HandleStream_Duplicate_Close(s) ==
    /\ handler[s].at = "duplicate"
    /\ handler' = [handler EXCEPT ![s].at = "unwanted", ![s].closed = TRUE]
    /\ UNCHANGED <<connected, reader, writer, queued, wire, actorVars, lockedVars, mainVars, queryVars, callerVars>>

\* HandleStream on a duplicate stream: connectionManager.Dropped(peerId),
\* return
HandleStream_Duplicate_Dropped(s) ==
    /\ handler[s].at = "unwanted"
    /\ handler' = [handler EXCEPT ![s].at = "rejected"]
    /\ connected' = Dropped(PeerOf(s))
    /\ UNCHANGED <<reader, writer, queued, wire, actorVars, lockedVars, mainVars, queryVars, callerVars>>

\* HandleStream: connectionManager.Added, go ReadFrom, go WriteTo
HandleStream_Spawn(s) ==
    /\ handler[s].at = "checked"
    /\ connected' = Added(PeerOf(s))
    /\ handler' = [handler EXCEPT ![s].at = "waiting",
                                  ![s].readers = @ + 1, ![s].writers = @ + 1]
    /\ reader' = [reader EXCEPT ![s] = [NoReader EXCEPT !.at = "reading", !.health = "open"]]
    /\ writer' = [writer EXCEPT ![s] = [NoWriter EXCEPT !.at = "subscribing", !.health = "open"]]
    /\ UNCHANGED <<queued, wire, actorVars, lockedVars, mainVars, queryVars, callerVars>>

\* variant: the session context is left as it is
teardown_NoCancel(h) == [h EXCEPT !.at = "cancelled"]

\* HandleStream past its select: cancel()
teardown(h) == [h EXCEPT !.at = "cancelled", !.cancelled = TRUE]

\* HandleStream woken by a health channel: cancel()
HandleStream_Teardown(s) ==
    /\ handler[s].at = "waiting"
    /\ reader[s].health = "closed" \/ writer[s].health = "closed"
    /\ handler' = [handler EXCEPT ![s] = teardown(@)]
    /\ UNCHANGED <<connected, reader, writer, queued, wire, actorVars, lockedVars, mainVars, queryVars, callerVars>>

\* HandleStream after cancel(): stream.Close()
HandleStream_Close(s) ==
    /\ handler[s].at = "cancelled"
    /\ handler' = [handler EXCEPT ![s].at = "closed", ![s].closed = TRUE]
    /\ UNCHANGED <<connected, reader, writer, queued, wire, actorVars, lockedVars, mainVars, queryVars, callerVars>>

\* HandleStream after stream.Close(): connectionManager.Dropped(peerId), return
HandleStream_Dropped(s) ==
    /\ handler[s].at = "closed"
    /\ handler' = [handler EXCEPT ![s].at = "done"]
    /\ connected' = Dropped(PeerOf(s))
    /\ UNCHANGED <<reader, writer, queued, wire, actorVars, lockedVars, mainVars, queryVars, callerVars>>

\* memPool.HandleTxFromPeer: the tx is submitted to the pending pool as an
\* Add, and the bus delivers the entry event of an accepted tx
HandleTxFromPeer(tx, out) ==
    IF isKnown(Pool, tx)
    THEN UNCHANGED <<poolVars, queued, handler>>
    ELSE LET stamped == stampAdded(tx, now) IN
         /\ SetPool(addTx(afterDrop(Pool, PendingPoolSize), stamped))
         /\ queued' = Deliver(PublishAdded(stamped, out), out)
         /\ handler' = [s \in Streams |->
                IF handler[s].at = "waiting" /\ PeerOf(s) # tx.ReceivedFrom
                THEN [handler[s] EXCEPT !.owed = @ \cup {tx.Hash}]
                ELSE handler[s]]

\* ReadFrom: select { case <-ctx.Done(): ... default: }: with the context
\* live the reader enters io.ReadFull and blocks there
ReadFrom_Default(s) ==
    /\ reader[s].at = "reading" /\ ~handler[s].cancelled
    /\ reader' = [reader EXCEPT ![s].at = "blocked", ![s].readErr = FALSE]
    /\ UNCHANGED <<connected, handler, writer, queued, wire, actorVars, lockedVars, mainVars, queryVars, callerVars>>

\* ReadFrom: the two io.ReadFull calls give one frame, whatever happened to
\* the context and to the stream since the reader left its select (rw.Reader
\* is buffered: a frame that arrived earlier is read without the stream); an
\* undecodable frame is skipped, a decoded tx is stamped with the peer
ReadFrom_Frame(s, h, decodable) ==
    /\ reader[s].at = "blocked"
    /\ reader' = [reader EXCEPT
            ![s].at = IF decodable THEN "framed" ELSE "reading",
            ![s].tx = IF decodable
                      THEN <<[PoolTx(h) EXCEPT !.ReceivedFrom = PeerOf(s)]>> ELSE <<>>]
    /\ UNCHANGED <<connected, handler, writer, queued, wire, actorVars, lockedVars, mainVars, queryVars, callerVars>>

\* ReadFrom: memPool.HandleTxFromPeer(ctx, tx) takes effect in the pool,
\* whatever happened to the session meanwhile; the loop runs again
ReadFrom_Handle(s, out) ==
    /\ reader[s].at = "framed"
    /\ HandleTxFromPeer(reader[s].tx[1], out)
    /\ reader' = [reader EXCEPT ![s].at = "reading", ![s].tx = <<>>]
    /\ UNCHANGED <<PendingPoolSize, now, last, adds, connected, writer, wire,
                   lockedVars, mainVars, queryVars, callerVars>>

\* ReadFrom: io.ReadFull fails with EOF or another error; the break leaves
\* the select statement only, the loop runs again
ReadFrom_ReadError(s) ==
    /\ reader[s].at = "blocked"
    /\ reader' = [reader EXCEPT ![s].at = "reading", ![s].readErr = TRUE]
    /\ UNCHANGED <<connected, handler, writer, queued, wire, actorVars, lockedVars, mainVars, queryVars, callerVars>>

\* ReadFrom: case <-ctx.Done(): break OUT, the deferred close(healthChan)
ReadFrom_Done(s) ==
    /\ reader[s].at = "reading" /\ handler[s].cancelled
    /\ reader' = [reader EXCEPT ![s].at = "stopped", ![s].readErr = FALSE,
                                ![s].health = "closed"]
    /\ UNCHANGED <<connected, handler, writer, queued, wire, actorVars, lockedVars, mainVars, queryVars, callerVars>>

\* WriteTo: process, the frames it writes for a message and its error
process_NoOriginCheck(msg, peerId, wr) ==
    IF wr = "undecodable" THEN [frames |-> <<>>, err |-> FALSE]
    ELSE IF wr = "ok" THEN [frames |-> <<msg>>, err |-> FALSE]
    ELSE [frames |-> <<>>, err |-> TRUE]

\* msgpack.Marshal(m): the fields of the record, in the order of the struct
ToMessagePack(m) ==
    [data |-> <<m.From, m.GasPrice, m.Hash, m.Nonce, m.PendingFrom, m.QueuedAt,
                m.Pool>>,
     err |-> FALSE]

\* copy(dst, src) of Go, on lengths: the number of elements copied
copy(dst, src) == IF dst < src THEN dst ELSE src

\* how a pass of process may end: the message is not decoded
\* (graph.UnmarshalPubSubMessage gives nil), the frame is written and
\* flushed, or rw.Write or rw.Flush fails
ProcessOutcomes == {"undecodable", "ok", "error"}

process(msg, peerId, wr) ==
    LET size == Len(ToMessagePack(msg).data)
        n == copy(size, size)
    IN  IF wr = "undecodable" THEN [frames |-> <<>>, err |-> FALSE]
        ELSE IF msg.ReceivedFrom = peerId THEN [frames |-> <<>>, err |-> FALSE]
        ELSE IF n # size THEN [frames |-> <<>>, err |-> FALSE]
        ELSE IF wr = "ok" THEN [frames |-> <<msg>>, err |-> FALSE]
        ELSE [frames |-> <<>>, err |-> TRUE]

\* WriteTo: where the loop stands after process returned
stopOnError_KeepsRunning(res, at) == at

stopOnError(res, at) == IF res.err THEN "stopped" ELSE at

\* WriteTo: graph.SubscribeToMemPool, on failure return
WriteTo_Subscribe(s, ok) ==
    /\ writer[s].at = "subscribing"
    /\ writer' = [writer EXCEPT
            ![s].at = IF ok THEN "watching" ELSE "stopped",
            ![s].health = IF ok THEN @ ELSE "closed"]
    /\ UNCHANGED <<connected, handler, reader, queued, wire, actorVars, lockedVars, mainVars, queryVars, callerVars>>

\* the writer of s after it processed a message in a branch of its loop
afterProcess(s, res, at, n) ==
    LET to == stopOnError(res, at) IN
    [writer EXCEPT
        ![s].at = to,
        ![s].writeErr = res.err,
        ![s].n = IF to = "draining" THEN n ELSE 0,
        ![s].received = IF to = "watching" THEN <<>> ELSE @,
        ![s].health = IF to = "stopped" THEN "closed" ELSE @]

\* WriteTo: case <-subscriber.Watch(), which the select may take whether or
\* not ctx is done; a pass whose subscriber.Next() gives nil changes nothing
WriteTo_Watch(s, wr) ==
    /\ writer[s].at = "watching"
    /\ queued[s] # <<>>
    /\ wr = "ok" => ~handler[s].closed
    /\ LET res == process(Head(queued[s]), PeerOf(s), wr) IN
        /\ writer' = afterProcess(s, res, "watching", 0)
        /\ queued' = [queued EXCEPT ![s] = IF writer'[s].at = "stopped" THEN <<>> ELSE Tail(@)]
        /\ wire' = [wire EXCEPT ![s] = @ \o res.frames]
    /\ UNCHANGED <<connected, handler, reader, actorVars, lockedVars, mainVars, queryVars, callerVars>>

\* WriteTo: case <-time.After(duration) with a message queued: the loop
\* starts with received := subscriber.Next()
WriteTo_Timed(s) ==
    /\ writer[s].at = "watching"
    /\ queued[s] # <<>>
    /\ writer' = [writer EXCEPT ![s].at = "draining", ![s].n = 0,
                                ![s].received = <<Head(queued[s])>>]
    /\ queued' = [queued EXCEPT ![s] = Tail(@)]
    /\ UNCHANGED <<connected, handler, reader, wire, actorVars, lockedVars, mainVars, queryVars, callerVars>>

\* WriteTo: one pass of the timed loop; it has no post statement, received
\* stays the same message until the duration has elapsed
WriteTo_Drain(s, wr, expired) ==
    /\ writer[s].at = "draining"
    /\ wr = "ok" => ~handler[s].closed
    /\ ~expired => writer[s].n + 1 < MaxWrites
    /\ LET res == process(writer[s].received[1], PeerOf(s), wr) IN
        /\ writer' = afterProcess(s, res, IF expired THEN "watching" ELSE "draining",
                                  writer[s].n + 1)
        /\ queued' = [queued EXCEPT ![s] = IF writer'[s].at = "stopped" THEN <<>> ELSE @]
        /\ wire' = [wire EXCEPT ![s] = @ \o res.frames]
    /\ UNCHANGED <<connected, handler, reader, actorVars, lockedVars, mainVars, queryVars, callerVars>>

\* WriteTo: case <-ctx.Done(): break OUT, unsubscribe, close(healthChan)
WriteTo_Done(s) ==
    /\ writer[s].at = "watching" /\ handler[s].cancelled
    /\ writer' = [writer EXCEPT ![s].at = "stopped", ![s].health = "closed"]
    /\ queued' = [queued EXCEPT ![s] = <<>>]
    /\ UNCHANGED <<connected, handler, reader, wire, actorVars, lockedVars, mainVars, queryVars, callerVars>>

\* the process is interrupted: cancel() of the context every session context
\* derives from
Interrupt ==
    /\ \E s \in Streams : ~handler[s].cancelled
    /\ handler' = [s \in Streams |-> [handler[s] EXCEPT !.cancelled = TRUE]]
    /\ UNCHANGED <<connected, reader, writer, queued, wire, actorVars, lockedVars, mainVars, queryVars, callerVars>>

\* the streams of S that arrived while their peer was connected
DuplicateNext(S) ==
    \/ \E s \in S : HandleStream_Duplicate_Close(s)
    \/ \E s \in S : HandleStream_Duplicate_Dropped(s)

\* the sessions of the streams of S
GossipNext(S) ==
    \/ \E s \in S : HandleStream_IsConnected(s)
    \/ \E s \in S : HandleStream_Spawn(s)
    \/ \E s \in S : HandleStream_Teardown(s)
    \/ \E s \in S : HandleStream_Close(s)
    \/ \E s \in S : HandleStream_Dropped(s)
    \/ \E s \in S, h \in PeerTxs, d \in BOOLEAN : ReadFrom_Frame(s, h, d)
    \/ \E s \in S, out \in PublishOutcomes : ReadFrom_Handle(s, out)
    \/ \E s \in S : ReadFrom_Default(s)
    \/ \E s \in S : ReadFrom_ReadError(s)
    \/ \E s \in S : ReadFrom_Done(s)
    \/ \E s \in S, ok \in BOOLEAN : WriteTo_Subscribe(s, ok)
    \/ \E s \in S, wr \in ProcessOutcomes : WriteTo_Watch(s, wr)
    \/ \E s \in S : WriteTo_Timed(s)
    \/ \E s \in S, wr \in ProcessOutcomes, e \in BOOLEAN : WriteTo_Drain(s, wr, e)
    \/ \E s \in S : WriteTo_Done(s)
    \/ Interrupt

\* the pool at its largest explored capacity, all clock readings equal
InitGossip ==
    /\ ActorInit(MaxTime) /\ PendingPoolSize = MaxPoolSize /\ LockedInit /\ GossipInit
    /\ MainInit /\ ActorStarted /\ QueryInit /\ CallerInit

\* one stream of each peer
FairStreams == {1, 2}

NextGossip == GossipNext(FairStreams)

SpecGossip == InitGossip /\ [][NextGossip]_vars

\* two streams of the same peer
SamePeerStreams == {1, 3}

NextSamePeer == GossipNext(SamePeerStreams) \/ DuplicateNext(SamePeerStreams)

SpecSamePeer == InitGossip /\ [][NextSamePeer]_vars

\* one stream of each peer, every writer scheduled as long as it can step

WriterStep(s) ==
    \/ \E ok \in BOOLEAN : WriteTo_Subscribe(s, ok)
    \/ \E wr \in ProcessOutcomes : WriteTo_Watch(s, wr)
    \/ WriteTo_Timed(s)
    \/ \E wr \in ProcessOutcomes, e \in BOOLEAN : WriteTo_Drain(s, wr, e)
    \/ WriteTo_Done(s)

\* the reader as long as it can step without the peer: the select, the
\* call into the pool, and the read that fails on a stream closed by the
\* handler
ReaderStep(s) ==
    \/ ReadFrom_Default(s)
    \/ ReadFrom_Done(s)
    \/ \E out \in PublishOutcomes : ReadFrom_Handle(s, out)
    \/ handler[s].closed /\ ReadFrom_ReadError(s)

\* the handler past its select: cancel(), stream.Close(), Dropped
HandlerStep(s) ==
    \/ HandleStream_Teardown(s)
    \/ HandleStream_Close(s)
    \/ HandleStream_Dropped(s)

NextGossipFair == GossipNext(FairStreams)

SpecGossipFair ==
    /\ InitGossip
    /\ [][NextGossipFair]_vars
    /\ \A s \in FairStreams : WF_vars(WriterStep(s))
    /\ \A s \in FairStreams : WF_vars(ReaderStep(s))
    /\ \A s \in FairStreams : WF_vars(HandlerStep(s))

\* ---- main: the supervisor, the poller and the pool actor's lifetime ----
MaxPolls == 2

\* the texts an error of the txpool_content call can carry: the RPC client
\* hands back the local context error or the message of the node's reply
\* a text is the sequence of its parts
RPCErrors ==
    {<<"context canceled">>, <<"Post \"http://node\": ", "context canceled">>,
     <<"connection refused">>}

\* strings.Contains(err.Error(), "context canceled")
isContextCanceled(err) == \E i \in DOMAIN err : err[i] = "context canceled"

\* os.Exit(0) ends every goroutine of the process
Running == supervisor.at # "exited"

\* the pending txs a txpool_content reply may hold
Snapshots == SUBSET PeerTxs

\* PollTxPoolContent: the call succeeds and the poller enters
\* res.Pool.Process with the pending txs of the reply
Poll_Success(snapshot) ==
    /\ Running /\ poller.at = "calling"
    /\ ctx = "live" /\ resources.RPCClient = "open"
    /\ poller.polls < MaxPolls
    /\ poller' = [poller EXCEPT !.at = "processing", !.polls = @ + 1, !.todo = snapshot]
    /\ UNCHANGED <<ctx, comm, resources, supervisor, actor, clients,
                   actorVars, lockedVars, gossipVars, queryVars, callerVars>>

\* Process, AddPendings: p.Add(ctx, tx) for a tx of the reply; the poller
\* waits until the event loop has received the request and answered
Poll_Process(h) ==
    /\ Running /\ poller.at = "processing" /\ h \in poller.todo
    /\ actor = "running"
    /\ txAdder(PoolTx(h), "ok")
    /\ poller' = [poller EXCEPT !.todo = @ \ {h}]
    /\ UNCHANGED <<ctx, comm, resources, supervisor, actor, clients,
                   lockedVars, gossipVars, queryVars, callerVars>>

\* Process has returned: res.Pool.Stat(start), then the sleep
Poll_Processed ==
    /\ Running /\ poller.at = "processing" /\ poller.todo = {}
    /\ poller' = [poller EXCEPT !.at = "sleeping"]
    /\ UNCHANGED <<ctx, comm, resources, supervisor, actor, clients,
                   actorVars, lockedVars, gossipVars, queryVars, callerVars>>

\* PollTxPoolContent: <-time.After(period) fires, the loop calls again
Poll_Wake ==
    /\ Running /\ poller.at = "sleeping"
    /\ poller' = [poller EXCEPT !.at = "calling"]
    /\ UNCHANGED <<ctx, comm, resources, supervisor, actor, clients,
                   actorVars, lockedVars, gossipVars, queryVars, callerVars>>

\* PollTxPoolContent: the call fails. cause "cancelled": ctx was cancelled and
\* the client returns the context's error; cause "remote": the node or the
\* connection failed, the text is whatever came back.
Poll_Error(cause, err) ==
    /\ Running /\ poller.at = "calling"
    /\ cause = "cancelled" => (ctx = "cancelled" /\ isContextCanceled(err))
    /\ poller' = [poller EXCEPT !.at = "dead", !.cause = cause, !.err = err]
    /\ IF isContextCanceled(err)
       THEN UNCHANGED comm
       ELSE comm' = [closed |-> TRUE, closes |-> comm.closes + 1]
    /\ UNCHANGED <<ctx, resources, supervisor, actor, clients,
                   actorVars, lockedVars, gossipVars, queryVars, callerVars>>

\* supervisor: case <-interruptChan: cancel(), then <-time.After(3 s)
Supervisor_Interrupt ==
    /\ supervisor.at = "select"
    /\ ctx' = "cancelled"
    /\ supervisor' = [at |-> "grace", woke |-> "interrupt"]
    /\ UNCHANGED <<comm, resources, poller, actor, clients,
                   actorVars, lockedVars, gossipVars, queryVars, callerVars>>

\* supervisor: the three seconds are over, break OUTER
Supervisor_GraceOver ==
    /\ supervisor.at = "grace"
    /\ supervisor' = [supervisor EXCEPT !.at = "deferred"]
    /\ UNCHANGED <<ctx, comm, resources, poller, actor, clients,
                   actorVars, lockedVars, gossipVars, queryVars, callerVars>>

\* supervisor: case <-comm: break OUTER, no poller is spawned
Supervisor_Comm ==
    /\ supervisor.at = "select"
    /\ comm.closed
    /\ supervisor' = [at |-> "deferred", woke |-> "comm"]
    /\ UNCHANGED <<ctx, comm, resources, poller, actor, clients,
                   actorVars, lockedVars, gossipVars, queryVars, callerVars>>

\* Resource.Release: r.RPCClient.Close(), and nothing for the bus client
Release(r) == [r EXCEPT !.RPCClient = "closed"]

\* supervisor, deferred: resources.Release()
Supervisor_Release ==
    /\ supervisor.at = "deferred"
    /\ resources' = Release(resources)
    /\ supervisor' = [supervisor EXCEPT !.at = "released"]
    /\ UNCHANGED <<ctx, comm, poller, actor, clients,
                   actorVars, lockedVars, gossipVars, queryVars, callerVars>>

\* supervisor, deferred: os.Exit(0)
Supervisor_Exit ==
    /\ supervisor.at = "released"
    /\ supervisor' = [supervisor EXCEPT !.at = "exited"]
    /\ UNCHANGED <<ctx, comm, resources, poller, actor, clients,
                   actorVars, lockedVars, gossipVars, queryVars, callerVars>>

\* the operations callers ask of the pool in this specification
ClientOps == {"Add", "Remove", "Count"}

\* PendingPool.Add, Remove, Count: p.XChan <- Request{..}; the send has no
\* select on ctx and blocks until the event loop receives
Client_Send(c, op, h) ==
    /\ Running /\ clients[c].at = "idle"
    /\ clients' = [clients EXCEPT ![c] = [at |-> "sending", op |-> op, hash |-> h]]
    /\ UNCHANGED <<ctx, comm, resources, supervisor, poller, actor,
                   actorVars, lockedVars, gossipVars, queryVars, callerVars>>

\* PendingPool.Add, Remove, Count: return <-respChan
Client_Return(c) ==
    /\ Running /\ clients[c].at = "replied"
    /\ clients' = [clients EXCEPT ![c] = NoRequest]
    /\ UNCHANGED <<ctx, comm, resources, supervisor, poller, actor,
                   actorVars, lockedVars, gossipVars, queryVars, callerVars>>

\* the cases of the event loop's select that can run: Go picks one of the
\* ready cases at random, ctx.Done() has no priority over a waiting request
selectable(c) == clients[c].at = "sending"

\* Start, the event loop: one of the request cases, and the reply
Start_Serve(c) ==
    /\ Running /\ actor = "running"
    /\ selectable(c)
    /\ CASE clients[c].op = "Add" -> txAdder(PoolTx(clients[c].hash), "ok")
         [] clients[c].op = "Remove" -> txRemover(clients[c].hash, "CONFIRMED", "ok")
         [] OTHER ->
               /\ last' = [NoReply EXCEPT !.op = "Count",
                                          !.n = Len(AscTxsByGasPrice)]
               /\ UNCHANGED <<poolVars, PendingPoolSize, now, adds>>
    /\ clients' = [clients EXCEPT ![c].at = "replied"]
    /\ UNCHANGED <<ctx, comm, resources, supervisor, poller, actor,
                   lockedVars, gossipVars, queryVars, callerVars>>

\* Start, the event loop: case <-ctx.Done(): return
Start_Done ==
    /\ Running /\ actor = "running"
    /\ ctx = "cancelled"
    /\ actor' = "returned"
    /\ UNCHANGED <<ctx, comm, resources, supervisor, poller, clients,
                   actorVars, lockedVars, gossipVars, queryVars, callerVars>>

InitMain ==
    /\ ActorInit(MaxTime) /\ PendingPoolSize = MaxPoolSize /\ LockedInit /\ GossipInit
    /\ MainInit /\ ActorStarted /\ QueryInit /\ CallerInit

NextMain ==
    \/ \E snapshot \in Snapshots : Poll_Success(snapshot)
    \/ \E h \in PeerTxs : Poll_Process(h)
    \/ Poll_Processed
    \/ Poll_Wake
    \/ \E cause \in {"cancelled", "remote"}, err \in RPCErrors : Poll_Error(cause, err)
    \/ Supervisor_Interrupt
    \/ Supervisor_GraceOver
    \/ Supervisor_Comm
    \/ Supervisor_Release
    \/ Supervisor_Exit
    \/ \E c \in Clients, op \in ClientOps, h \in PeerTxs : Client_Send(c, op, h)
    \/ \E c \in Clients : Client_Return(c)
    \/ \E c \in Clients : Start_Serve(c)
    \/ Start_Done

SpecMain == InitMain /\ [][NextMain]_vars

\* ---- the wire format of a tx: ToMessagePack and FromMessagePack ----
\* msgpack.Unmarshal(data, dst): dst must be a pointer to a record to fill;
\* a nil pointer has nothing to decode into and is refused with an error
Unmarshal(data, dst) ==
    IF dst = "nil" THEN [tx |-> <<>>, err |-> TRUE]
    ELSE [tx |-> <<[From |-> data[1], GasPrice |-> data[2], Hash |-> data[3],
                    Nonce |-> data[4], PendingFrom |-> data[5],
                    QueuedAt |-> data[6], Pool |-> data[7]]>>,
          err |-> FALSE]

\* FromMessagePack: var tx *MemPoolTx; msgpack.Unmarshal(data, tx)
FromMessagePack(data) == Unmarshal(data, "nil")

\* the txs handed to the codec
CodecTxs ==
    {[MemPoolTx(h) EXCEPT !.PendingFrom = t, !.QueuedAt = q, !.Pool = p] :
        h \in Hashes, t \in 0..MaxTime, q \in {0, MaxTime}, p \in PoolNames}

\* m.ToMessagePack()
Codec_Encode ==
    /\ codec.at = "tx"
    /\ codec' = [codec EXCEPT !.at = "encoded", !.data = ToMessagePack(codec.tx[1]).data]
    /\ UNCHANGED <<answer, actorVars, lockedVars, gossipVars, mainVars, callerVars>>

\* FromMessagePack(data)
Codec_Decode ==
    /\ codec.at = "encoded"
    /\ LET r == FromMessagePack(codec.data)
       IN  codec' = [codec EXCEPT !.at = "decoded", !.decoded = r.tx, !.err = r.err]
    /\ UNCHANGED <<answer, actorVars, lockedVars, gossipVars, mainVars, callerVars>>

InitCodec ==
    /\ ActorInit(MaxTime) /\ PendingPoolSize = MaxPoolSize /\ LockedInit /\ GossipInit
    /\ MainInit /\ ActorStarted /\ CallerInit
    /\ answer = NoAnswer
    /\ \E tx \in CodecTxs : codec = [NoCodec EXCEPT !.at = "tx", !.tx = <<tx>>]

NextCodec ==
    \/ Codec_Encode
    \/ Codec_Decode

SpecCodec == InitCodec /\ [][NextCodec]_vars

\* ---- derived queries: callers composing the replies of the event loop ----
\* p.Get(hash): the tx, or nil
getReply(p, h) == IF h \in DOMAIN p.Transactions THEN <<p.Transactions[h]>> ELSE <<>>

\* p.TxsFromA(addr): a copy of the sender's list, nil when there is none or
\* it is empty
txsFromAReply(p, addr) ==
    IF addr \in DOMAIN p.TxsFromAddress THEN p.TxsFromAddress[addr] ELSE <<>>

\* the Go slice expression txs[:x] on a slice whose capacity is its length:
\* a run-time panic when x is beyond it
sliceTo(txs, x) ==
    IF x > Len(txs) THEN [txs |-> <<>>, panic |-> TRUE]
    ELSE [txs |-> SubSeq(txs, 1, x), panic |-> FALSE]

\* return p.DescListTxs()[:x]
TopXWithHighGasPrice(p, x) == sliceTo(listTxs(p, "DESC"), x)

\* return p.AscListTxs()[:x]
TopXWithLowGasPrice(p, x) == sliceTo(listTxs(p, "ASC"), x)

\* the values of x asked for: up to one more than any pool holds
Xs == 0..(MaxPoolSize + 1)

\* tx.IsDuplicateOf(targetTx)
IsDuplicateOf(a, b) == a.From = b.From /\ a.Nonce = b.Nonce /\ a.Hash # b.Hash

\* the orders in which the workers' findings may arrive on commChan
Arrivals(txs) ==
    {[i \in 1..Len(txs) |-> txs[f[i]]] :
        f \in {g \in [1..Len(txs) -> 1..Len(txs)] :
                 \A i, j \in 1..Len(txs) : g[i] = g[j] => i = j}}

\* variant: every tx of the list is reported
duplicatesIn_All(target, txs) == txs

\* DuplicateTxs: the txs the workers send on commChan
duplicatesIn(target, txs) == SelectSeq(txs, LAMBDA tx : IsDuplicateOf(tx, target))

\* variant: the nonce is not looked at
prunablesIn_AnyNonce(target, txs) ==
    SelectSeq(txs, LAMBDA tx : tx.Hash # target.Hash)

\* Prunables: the txs the workers send on commChan
prunablesIn(target, txs) ==
    SelectSeq(txs, LAMBDA tx : tx.Hash # target.Hash /\ tx.Nonce <= target.Nonce)

\* a caller may start a query unless it is between two requests of one
Asking == answer.at # "got"

\* TopXWithHighGasPrice(x), TopXWithLowGasPrice(x)
TopX(op, x) ==
    /\ Asking
    /\ LET r == IF op = "TopXWithHighGasPrice" THEN TopXWithHighGasPrice(Pool, x)
                ELSE TopXWithLowGasPrice(Pool, x)
       IN  answer' = [NoAnswer EXCEPT !.op = op, !.at = "done", !.x = x,
                                      !.result = r.txs, !.panic = r.panic]
    /\ UNCHANGED <<codec, actorVars, lockedVars, gossipVars, mainVars, callerVars>>

\* DuplicateTxs: targetTx := p.Get(hash); if targetTx == nil { return nil }
DuplicateTxs_Get(h) ==
    /\ Asking
    /\ answer' = [NoAnswer EXCEPT
            !.op = "DuplicateTxs", !.x = h, !.target = getReply(Pool, h),
            !.at = IF getReply(Pool, h) = <<>> THEN "done" ELSE "got"]
    /\ UNCHANGED <<codec, actorVars, lockedVars, gossipVars, mainVars, callerVars>>

\* DuplicateTxs: txs := p.DescListTxs(), the workers, the collected result
DuplicateTxs_List ==
    /\ answer.op = "DuplicateTxs" /\ answer.at = "got"
    /\ \E arrived \in Arrivals(duplicatesIn(answer.target[1], listTxs(Pool, "DESC"))) :
          answer' = [answer EXCEPT !.at = "done", !.result = arrived]
    /\ UNCHANGED <<codec, actorVars, lockedVars, gossipVars, mainVars, callerVars>>

\* Prune: tx := p.Get(txs[i].Hash); if tx == nil { continue }
Prune_Get(h) ==
    /\ Asking
    /\ h \in DOMAIN Transactions
    /\ answer' = [NoAnswer EXCEPT
            !.op = "Prunables", !.x = h, !.target = getReply(Pool, h), !.at = "got"]
    /\ UNCHANGED <<codec, actorVars, lockedVars, gossipVars, mainVars, callerVars>>

\* Prunables(targetTx): txs := p.TxsFromA(targetTx.From); nil when that is
\* nil, else the target followed by what the workers send
Prunables ==
    /\ answer.op = "Prunables" /\ answer.at = "got"
    /\ LET target == answer.target[1]
           txs == txsFromAReply(Pool, target.From)
       IN  IF txs = <<>>
           THEN answer' = [answer EXCEPT !.at = "done", !.result = <<>>]
           ELSE \E arrived \in Arrivals(prunablesIn(target, txs)) :
                  answer' = [answer EXCEPT !.at = "done",
                                           !.result = <<target>> \o arrived]
    /\ UNCHANGED <<codec, actorVars, lockedVars, gossipVars, mainVars, callerVars>>

TopXOps == {"TopXWithHighGasPrice", "TopXWithLowGasPrice"}

\* Prune removes txs in the goroutine that calls Get and Prunables: never
\* between the two
PrunerIdle == ~(answer.op = "Prunables" /\ answer.at = "got")

InitQueries ==
    /\ ActorInit(MaxTime) /\ LockedInit /\ GossipInit
    /\ MainInit /\ ActorStarted /\ QueryInit /\ CallerInit

NextQueries ==
    \/ \E h \in Hashes : AddTxChan(h, "ok")
    \/ \E h \in Hashes : PrunerIdle /\ RemoveTxChan(h, "CONFIRMED", "ok")
    \/ \E op \in TopXOps, x \in Xs : TopX(op, x)
    \/ \E h \in Hashes : DuplicateTxs_Get(h)
    \/ DuplicateTxs_List
    \/ \E h \in Hashes : Prune_Get(h)
    \/ Prunables

SpecQueries == InitQueries /\ [][NextQueries]_vars

\* ---- the pruner: PendingPool.Prune, its worker pool and internalChan ----
\* candidates one batch on commChan may carry
MaxBatch == 2

\* batches the block listener sends on commChan in a run
MaxBatches == 2

\* jobs in the worker pool and statuses on internalChan, of earlier batches,
\* next to which the listener still sends a batch
MaxBacklog == 2

\* internalChan := make(chan *TxStatus, 1024)
InternalChanSize == 1024

\* statuses waiting on internalChan next to which a worker still finishes
MaxQueued == 2

\* the txs the block listener and the senders of this run name: two of a
\* sender, of nonce 0 and 1, and one of another sender
PruneTxs == {1, 3, 4}

\* how often hash h stands in a sequence of hashes
Times(hs, h) == Cardinality({i \in 1..Len(hs) : hs[i] = h})

RECURSIVE SubmittedOf(_, _)
\* the jobs of the txs of S submitted to the worker pool that no worker has
\* finished
SubmittedOf(jobs, S) ==
    IF S = {} THEN 0
    ELSE LET h == CHOOSE x \in S : TRUE
         IN  jobs[h] + SubmittedOf(jobs, S \ {h})

Submitted(jobs) == SubmittedOf(jobs, Hashes)

\* the batches of candidate hashes the block listener may send
Batches ==
    {b \in UNION {[1..n -> PruneTxs] : n \in 1..MaxBatch} :
        \A i, j \in 1..Len(b) : b[i] = b[j] => i = j}

\* how the answer classifies the tx
ProbeClass(tx, r) ==
    IF r.err THEN "error"
    ELSE IF r.accountNonce <= tx.Nonce THEN "mineable"
    ELSE IF r.mined THEN "confirmed" ELSE "dropped"

\* tx.IsDropped(ctx, p.RPC): (bool, error); b is the bool that comes with an
\* error
IsDropped(tx, r, b) ==
    IF r.err THEN [dropped |-> b, err |-> TRUE]
    ELSE [dropped |-> r.accountNonce > tx.Nonce /\ ~r.mined, err |-> FALSE]

\* the worker job: dropped, _ := tx.IsDropped(ctx, p.RPC); the status it
\* sends on internalChan, none when it sends nothing
jobStatus(tx, r, b) ==
    <<IF IsDropped(tx, r, b).dropped THEN "DROPPED" ELSE "CONFIRMED">>

\* case txs := <-commChan: a batch arrives; alreadyAddedFromA is made anew
Prune_Batch(txs) ==
    /\ pruner.at = "select"
    /\ pruner.batches < MaxBatches
    /\ Submitted(pruner.jobs) + Len(pruner.internalChan) <= MaxBacklog
    /\ pruner' = [pruner EXCEPT !.at = "batch", !.batch = txs,
                                !.batches = @ + 1,
                                !.alreadyAddedFromA = [a \in {} |-> 0],
                                !.prunables = <<>>]
    /\ UNCHANGED <<confirmer, held, actorVars, lockedVars, gossipVars, mainVars, queryVars>>

\* the first loop: tx := p.Get(txs[i].Hash), the two continue branches
Prune_Candidate ==
    /\ pruner.at = "batch" /\ pruner.batch # <<>>
    /\ LET tx == getReply(Pool, Head(pruner.batch))
           skip ==
             \/ tx = <<>>
             \/ /\ tx[1].From \in DOMAIN pruner.alreadyAddedFromA
                /\ pruner.alreadyAddedFromA[tx[1].From] > tx[1].Nonce
       IN  pruner' = [pruner EXCEPT !.batch = Tail(@),
                                    !.at = IF skip THEN "batch" ELSE "got",
                                    !.target = IF skip THEN <<>> ELSE tx]
    /\ UNCHANGED <<confirmer, held, actorVars, lockedVars, gossipVars, mainVars, queryVars>>

\* the first loop: prunables = append(prunables, p.Prunables(tx)...) and
\* alreadyAddedFromA[tx.From] = tx.Nonce
Prune_Prunables ==
    /\ pruner.at = "got"
    /\ LET target == pruner.target[1]
           txs == txsFromAReply(Pool, target.From)
       IN  \E arrived \in Arrivals(prunablesIn(target, txs)) :
             LET res == IF txs = <<>> THEN <<>> ELSE <<target>> \o arrived
             IN  pruner' = [pruner EXCEPT
                    !.at = "batch", !.target = <<>>,
                    !.prunables = @ \o [i \in 1..Len(res) |-> res[i].Hash],
                    !.alreadyAddedFromA =
                        [a \in DOMAIN @ \cup {target.From} |->
                            IF a = target.From THEN target.Nonce ELSE @[a]]]
    /\ UNCHANGED <<confirmer, held, actorVars, lockedVars, gossipVars, mainVars, queryVars>>

\* the second loop: wp.Submit for every prunable; the case is over
Prune_Submit ==
    /\ pruner.at = "batch" /\ pruner.batch = <<>>
    /\ pruner' = [pruner EXCEPT !.at = "select",
                                !.jobs = [h \in Hashes |-> @[h] + Times(pruner.prunables, h)],
                                !.prunables = <<>>,
                                !.alreadyAddedFromA = [a \in {} |-> 0]]
    /\ UNCHANGED <<confirmer, held, actorVars, lockedVars, gossipVars, mainVars, queryVars>>

\* a worker runs the job of a prunable
Worker_Probe(h, r, b) ==
    /\ pruner.jobs[h] > 0
    /\ Len(pruner.internalChan) < InternalChanSize
    /\ Len(pruner.internalChan) < MaxQueued
    /\ ~r.err => ~b
    /\ LET tx == PoolTx(h)
           st == jobStatus(tx, r, b)
       IN  pruner' = [pruner EXCEPT
              !.jobs = [@ EXCEPT ![h] = @ - 1],
              !.internalChan =
                  IF st = <<>> THEN @
                  ELSE Append(@, [Hash |-> tx.Hash, Status |-> st[1],
                                  probe |-> ProbeClass(tx, r)])]
    /\ UNCHANGED <<confirmer, held, actorVars, lockedVars, gossipVars, mainVars, queryVars>>

\* case tx := <-internalChan: p.Remove(ctx, tx) for CONFIRMED and DROPPED
Prune_Remove ==
    /\ pruner.at = "select" /\ pruner.internalChan # <<>>
    /\ LET st == Head(pruner.internalChan)
       IN  IF st.Status \in {"CONFIRMED", "DROPPED"}
           THEN txRemover(st.Hash, st.Status, "ok")
           ELSE UNCHANGED actorVars
    /\ pruner' = [pruner EXCEPT !.internalChan = Tail(@)]
    /\ UNCHANGED <<confirmer, held, lockedVars, gossipVars, mainVars, queryVars>>

InitPrune ==
    /\ ActorInit(MaxTime) /\ PendingPoolSize = MaxPoolSize /\ LockedInit /\ GossipInit
    /\ MainInit /\ ActorStarted /\ QueryInit /\ CallerInit

NextPrune ==
    \/ \E h \in PruneTxs : AddTxChan(h, "ok")
    \/ \E txs \in Batches : Prune_Batch(txs)
    \/ Prune_Candidate
    \/ Prune_Prunables
    \/ Prune_Submit
    \/ \E h \in PruneTxs, r \in Probes, b \in BOOLEAN : Worker_Probe(h, r, b)
    \/ Prune_Remove

SpecPrune == InitPrune /\ [][NextPrune]_vars

\* ============================================================ properties
\* helpers of the properties, written on the state alone
Occurs(txs, h) == Cardinality({i \in 1..Len(txs) : txs[i].Hash = h})

OccursTx(txs, tx) == Cardinality({i \in 1..Len(txs) : txs[i] = tx})

SenderList(a) == IF a \in DOMAIN TxsFromAddress THEN TxsFromAddress[a] ELSE <<>>

InPool == DOMAIN Transactions

\* key order of the eviction policy as stated: gas price, then pending_from,
\* then hash
KeyLeq(a, b) ==
    \/ a.GasPrice < b.GasPrice
    \/ a.GasPrice = b.GasPrice /\ a.PendingFrom < b.PendingFrom
    \/ a.GasPrice = b.GasPrice /\ a.PendingFrom = b.PendingFrom /\ a.Hash <= b.Hash

\* C1: a hash is a key of Transactions if and only if its tx appears exactly
\* once in AscTxsByGasPrice, in DescTxsByGasPrice and in the list of its
\* sender; a hash that is no key appears in none of them. It holds in every
\* state a request (reader or writer) is served from.
C1_IndexesMatchMap ==
    \A h \in Hashes :
        IF h \in InPool
        THEN /\ Transactions[h].Hash = h
             /\ Occurs(AscTxsByGasPrice, h) = 1
             /\ Occurs(DescTxsByGasPrice, h) = 1
             /\ Occurs(SenderList(FromOf(h)), h) = 1
             /\ OccursTx(AscTxsByGasPrice, Transactions[h]) = 1
             /\ OccursTx(DescTxsByGasPrice, Transactions[h]) = 1
             /\ OccursTx(SenderList(FromOf(h)), Transactions[h]) = 1
        ELSE /\ Occurs(AscTxsByGasPrice, h) = 0
             /\ Occurs(DescTxsByGasPrice, h) = 0
             /\ \A a \in Addresses : Occurs(SenderList(a), h) = 0

\* a reader asked for the txs of a sender and is answered with the two txs
\* the pool holds for it
C1_Witness ==
    /\ last.op = "TxsFromA"
    /\ Len(last.txs) = 2
    /\ last.txs = SenderList(last.addr)
    /\ \A i \in 1..2 : last.txs[i].Hash \in InPool

\* C2: the pool never holds more txs than PendingPoolSize, and an accepted
\* Add served by a full pool evicts exactly one tx before it inserts.
C2_Bounded ==
    /\ Cardinality(InPool) <= PendingPoolSize
    /\ Len(AscTxsByGasPrice) <= PendingPoolSize
    /\ (last.op = "Add" /\ last.ok /\ Len(last.victim) = 1
            => /\ Cardinality(InPool) = PendingPoolSize
               /\ last.victim[1].Hash \notin InPool)

C2_EvictsOne ==
    [][ (last'.op = "Add" /\ last'.ok /\ Cardinality(InPool) >= PendingPoolSize)
            => /\ Len(last'.victim) = 1
               /\ last'.victim[1].Hash \in InPool
               /\ InPool' = (InPool \ {last'.victim[1].Hash}) \cup {last'.hash}
               /\ Cardinality(InPool') = PendingPoolSize ]_vars

C2_CapacityNeverExceeded == []C2_Bounded /\ C2_EvictsOne

\* an Add evicted a tx of a full pool of size 2
C2_Witness ==
    /\ last.op = "Add" /\ last.ok
    /\ Len(last.victim) = 1
    /\ PendingPoolSize = 2
    /\ Cardinality(InPool) = 2

\* C3: no hash is both a tombstone (DroppedTxs) and a key of Transactions.
C3_TombstoneNotInPool == DroppedTxs \cap InPool = {}

\* the pool is full, holds tombstones, and has just refused a tombstoned tx
C3_Witness ==
    /\ Cardinality(DroppedTxs) >= 2
    /\ Cardinality(InPool) = PendingPoolSize
    /\ last.op = "Add" /\ ~last.ok /\ last.hash \in DroppedTxs

\* C4: an Add of a tx whose hash is in the pool or is a tombstone replies
\* false, changes neither map, indexes nor tombstones, evicts nothing and
\* publishes nothing.
C4_DuplicateAddRejected ==
    [][ (last'.op = "Add" /\ (last'.hash \in InPool \/ last'.hash \in DroppedTxs))
            => /\ ~last'.ok
               /\ UNCHANGED poolVars
               /\ last'.victim = <<>>
               /\ last'.published = <<>> ]_vars

\* an Add of a tx that is in the full pool was refused
C4_Witness ==
    /\ last.op = "Add" /\ ~last.ok
    /\ last.hash \in InPool
    /\ Cardinality(InPool) = PendingPoolSize
    /\ last.published = <<>>

C6_NoReadmission ==
    [][ /\ \A h \in DroppedTxs : h \in DroppedTxs' /\ h \notin InPool'
        /\ (last'.op = "Add" /\ last'.hash \in DroppedTxs)
                => ~last'.ok /\ UNCHANGED poolVars ]_vars

\* an evicted tx was offered again while the pool had room, and refused
C6_Witness ==
    /\ last.op = "Add" /\ ~last.ok /\ last.hash \in DroppedTxs
    /\ Cardinality(InPool) < PendingPoolSize

\* C7: the tombstone set holds at most 2 x capacity hashes.
C7_TombstonesBounded == Cardinality(DroppedTxs) <= 2 * PendingPoolSize

\* C8: N > C Adds of distinct txs in non-decreasing gas price order to an
\* empty pool leave exactly C txs, none of a gas price below that of one of
\* the other N-C, which are exactly the tombstones.
C8_OrderedAddsKeepHighest ==
    (adds.inOrder /\ Cardinality(adds.hashes) > PendingPoolSize)
        => /\ Cardinality(InPool) = PendingPoolSize
           /\ InPool \subseteq adds.hashes
           /\ DroppedTxs = adds.hashes \ InPool
           /\ Cardinality(DroppedTxs) = Cardinality(adds.hashes) - PendingPoolSize
           /\ \A h \in InPool, d \in DroppedTxs : GasPriceOf(h) >= GasPriceOf(d)

\* a run of ordered Adds overflowed the pool by two, over two gas prices
C8_Witness ==
    /\ adds.inOrder
    /\ Cardinality(adds.hashes) >= PendingPoolSize + 2
    /\ \E h \in InPool, d \in DroppedTxs : GasPriceOf(h) > GasPriceOf(d)

\* C9: Remove of a hash in the pool replies true and takes the tx out of
\* Transactions and of the three indexes, leaving the other txs; Remove of a
\* hash not in the pool replies false, changes nothing and publishes nothing.
C9_Remove ==
    [][ last'.op = "Remove"
            => IF last'.hash \in InPool
               THEN /\ last'.ok
                    /\ InPool' = InPool \ {last'.hash}
                    /\ Occurs(AscTxsByGasPrice', last'.hash) = 0
                    /\ Occurs(DescTxsByGasPrice', last'.hash) = 0
                    /\ \A a \in Addresses :
                         IF a \in DOMAIN TxsFromAddress'
                         THEN Occurs(TxsFromAddress'[a], last'.hash) = 0
                         ELSE TRUE
                    /\ Len(AscTxsByGasPrice') = Len(AscTxsByGasPrice) - 1
                    /\ Len(DescTxsByGasPrice') = Len(DescTxsByGasPrice) - 1
                    /\ DroppedTxs' = DroppedTxs
               ELSE /\ ~last'.ok
                    /\ UNCHANGED poolVars
                    /\ last'.published = <<>> ]_vars

\* a Remove took one tx out of a pool that keeps another tx of that sender
C9_Witness ==
    /\ last.op = "Remove" /\ last.ok
    /\ last.hash \notin InPool
    /\ \E h \in InPool : FromOf(h) = FromOf(last.hash)

\* every tx the pending pool holds, in the map and in each index, reads "pending"
AllPending ==
    /\ \A h \in InPool : Transactions[h].Pool = "pending"
    /\ \A i \in 1..Len(AscTxsByGasPrice) : AscTxsByGasPrice[i].Pool = "pending"
    /\ \A i \in 1..Len(DescTxsByGasPrice) : DescTxsByGasPrice[i].Pool = "pending"
    /\ \A a \in DOMAIN TxsFromAddress :
         \A i \in 1..Len(TxsFromAddress[a]) : TxsFromAddress[a][i].Pool = "pending"

C11_AscDescReversed ==
    /\ Len(AscTxsByGasPrice) = Len(DescTxsByGasPrice)
    /\ \A i \in 1..Len(AscTxsByGasPrice) :
         DescTxsByGasPrice[i] = AscTxsByGasPrice[Len(AscTxsByGasPrice) + 1 - i]
    /\ \A h \in Hashes : Occurs(AscTxsByGasPrice, h) = Occurs(DescTxsByGasPrice, h)

\* after an Add that evicted a tx, both lists hold two txs of different gas price
C11_Witness ==
    /\ last.op = "Add" /\ last.ok /\ Len(last.victim) = 1
    /\ Len(AscTxsByGasPrice) = 2
    /\ AscTxsByGasPrice[1].GasPrice < AscTxsByGasPrice[2].GasPrice
    /\ DescTxsByGasPrice[1] = AscTxsByGasPrice[2]

\* the txs of a list are exactly the txs of the pool, each once
HoldsThePool(txs) ==
    /\ Len(txs) = Cardinality(InPool)
    /\ \A h \in InPool : OccursTx(txs, Transactions[h]) = 1

C16_Original ==
    /\ (last.op = "Add" /\ last.ok)
         => Len(last.published) = 1 /\ last.published[1].topic = "pending_pool_entry"
    /\ (last.op = "Remove" /\ last.ok)
         => Len(last.published) = 1 /\ last.published[1].topic = "pending_pool_exit"
    /\ (last.op \in {"Add", "Remove"} /\ ~last.ok) => last.published = <<>>

\* C16 amended: an accepted Add hands exactly one message, the tx as stored,
\* to the entry topic and an accepted Remove exactly one to the exit topic,
\* unless serializing the tx fails, in which case none is handed; a rejected
\* Add or Remove hands none.
C16_OneMessagePerMutation ==
    /\ (last.op = "Add" /\ last.ok)
         => last.published =
              IF last.bus = "marshal_error" THEN <<>>
              ELSE <<[topic |-> "pending_pool_entry", tx |-> last.tx[1]]>>
    /\ (last.op = "Remove" /\ last.ok)
         => last.published =
              IF last.bus = "marshal_error" THEN <<>>
              ELSE <<[topic |-> "pending_pool_exit", tx |-> last.tx[1]]>>
    /\ (last.op \in {"Add", "Remove"} /\ ~last.ok)
         => last.published = <<>> /\ last.bus = ""

\* a Remove handed its exit message while the bus refused it
C16_Witness ==
    /\ last.op = "Remove" /\ last.ok
    /\ last.bus = "publish_error"
    /\ Len(last.published) = 1
    /\ last.published[1].topic = "pending_pool_exit"

\* C17: when serializing or publishing fails during an Add or a Remove the
\* request still replies true and the pool holds the mutation: the added tx
\* is in the map and in every index, the removed tx in none.
C17_PublishFailureKeepsMutation ==
    (last.op \in {"Add", "Remove"} /\ last.bus \in {"marshal_error", "publish_error"})
        => /\ last.ok
           /\ last.op = "Add"
                => /\ last.hash \in InPool
                   /\ Transactions[last.hash] = last.tx[1]
                   /\ OccursTx(AscTxsByGasPrice, last.tx[1]) = 1
                   /\ OccursTx(DescTxsByGasPrice, last.tx[1]) = 1
                   /\ OccursTx(SenderList(last.tx[1].From), last.tx[1]) = 1
           /\ last.op = "Remove"
                => /\ last.hash \notin InPool
                   /\ Occurs(AscTxsByGasPrice, last.hash) = 0
                   /\ Occurs(DescTxsByGasPrice, last.hash) = 0
                   /\ Occurs(SenderList(last.tx[1].From), last.hash) = 0

\* an Add whose tx could not be serialized evicted a tx and is in the pool
C17_Witness ==
    /\ last.op = "Add" /\ last.bus = "marshal_error"
    /\ last.published = <<>>
    /\ Len(last.victim) = 1
    /\ last.hash \in InPool

\* C15: a lifecycle event is handed to the bus only after the pool reflects
\* the mutation: when an Add has handed its entry event the map holds the tx,
\* and when a Remove has handed its exit event the map no longer holds it.
C15_PublishAfterMutation ==
    \A c \in Callers :
        (callers[c].at = "published" /\ callers[c].handed # <<>>)
            => /\ callers[c].op = "Add"
                    => /\ callers[c].hash \in DOMAIN Transactions
                       /\ Transactions[callers[c].hash] = callers[c].handed[1].tx
               /\ callers[c].op = "Remove"
                    => callers[c].hash \notin DOMAIN Transactions

\* the frames written to the stream of s that carry tx h
Written(h, s) == \E i \in 1..Len(wire[s]) : wire[s][i].Hash = h

\* the session of s is no longer healthy
Unhealthy(s) ==
    \/ handler[s].at # "waiting"
    \/ reader[s].health = "closed"
    \/ writer[s].health = "closed"

\* C13: a tx received from peer P is never written by the writer of a session
\* of P: every frame written to a stream carries a received_from other than
\* the stream's peer, and is not a tx the pool holds as received from it.
C13_NoGossipBack ==
    \A s \in Streams : \A i \in 1..Len(wire[s]) :
        /\ wire[s][i].ReceivedFrom # PeerOf(s)
        /\ ~(/\ wire[s][i].Hash \in DOMAIN Transactions
             /\ Transactions[wire[s][i].Hash].ReceivedFrom = PeerOf(s))

\* the writer of the sender's session went through its timed loop with the
\* tx and wrote nothing, while another peer's session got the frame
C13_Witness ==
    \E s, s2 \in Streams :
        /\ writer[s].at = "draining" /\ writer[s].n >= 1
        /\ writer[s].received[1].ReceivedFrom = PeerOf(s)
        /\ wire[s] = <<>>
        /\ wire[s2] # <<>> /\ wire[s2][1].ReceivedFrom = PeerOf(s)

\* no frame goes back to the peer the tx was received from
NotWrittenToSender ==
    \A s \in Streams : \A i \in 1..Len(wire[s]) : wire[s][i].ReceivedFrom # PeerOf(s)

\* C14: a tx received from peer A and accepted by the pool is
\* eventually written to every other peer B registered at that moment whose
\* session stays healthy, and is not written to A.
C14_AcceptedIsWritten ==
    /\ []NotWrittenToSender
    /\ \A h \in PeerTxs : \A b \in FairStreams :
         (h \in handler[b].owed) ~> (Written(h, b) \/ Unhealthy(b))

\* C18: a gossip reader that hit EOF or a read error has terminated and has
\* closed its health channel.
C18_ReaderStopsOnReadError ==
    \A s \in Streams :
        reader[s].readErr => reader[s].at = "stopped" /\ reader[s].health = "closed"

\* C19: a gossip writer whose frame write or flush failed, in the watch branch
\* or in the timed drain branch, has terminated and has closed its health
\* channel.
C19_WriterStopsOnWriteError ==
    \A s \in Streams :
        writer[s].writeErr => writer[s].at = "stopped" /\ writer[s].health = "closed"

\* a writer stopped on a write error inside the timed drain loop
C19_Witness ==
    \E s \in Streams :
        /\ writer[s].writeErr /\ writer[s].received # <<>>
        /\ writer[s].at = "stopped" /\ writer[s].health = "closed"

\* C20: a stream of a peer tracked as connected goes no other way than to be
\* closed and then to have the peer marked as dropped, and never gets a
\* reader or a writer; a stream of any other peer goes on to register the
\* peer and to spawn exactly one reader and one writer.
C20_DuplicateStreamRejected ==
    [][\A s \in Streams :
        /\ (handler[s].at = "idle" /\ handler'[s].at # "idle")
            => /\ handler'[s].at = IF PeerOf(s) \in connected THEN "duplicate" ELSE "checked"
               /\ ~handler'[s].closed
               /\ connected' = connected
        /\ (handler[s].at = "duplicate" /\ handler'[s].at # "duplicate")
            => /\ handler'[s].at = "unwanted" /\ handler'[s].closed
               /\ connected' = connected
        /\ (handler[s].at = "unwanted" /\ handler'[s].at # "unwanted")
            => /\ handler'[s].at = "rejected" /\ handler'[s].closed
               /\ PeerOf(s) \notin connected'
        /\ handler[s].at \in {"duplicate", "unwanted", "rejected"}
            => /\ handler'[s].at \in {"duplicate", "unwanted", "rejected"}
               /\ handler'[s].readers = 0 /\ handler'[s].writers = 0
               /\ reader'[s].at = "none" /\ writer'[s].at = "none"
        /\ handler[s].at = "rejected" => handler'[s].at = "rejected"
        /\ (handler[s].at = "checked" /\ handler'[s].at # "checked")
            => /\ handler'[s].at = "waiting"
               /\ PeerOf(s) \in connected'
               /\ handler'[s].readers = 1 /\ handler'[s].writers = 1
               /\ reader'[s].at = "reading" /\ writer'[s].at = "subscribing"
        /\ handler'[s].readers <= 1 /\ handler'[s].writers <= 1
      ]_vars

\* a second stream of a peer was closed and the peer marked as dropped, the
\* stream without reader and writer, while the first one has its reader and
\* its writer
C20_Witness ==
    \E s, s2 \in Streams :
        /\ s # s2 /\ PeerOf(s) = PeerOf(s2)
        /\ handler[s].at = "rejected" /\ handler[s].closed
        /\ PeerOf(s) \notin connected
        /\ reader[s].at = "none" /\ writer[s].at = "none"
        /\ handler[s2].at = "waiting"
        /\ handler[s2].readers = 1 /\ handler[s2].writers = 1

\* a health channel of the registered session of s is closed
HealthClosed(s) ==
    /\ handler[s].at = "waiting"
    /\ reader[s].health = "closed" \/ writer[s].health = "closed"

\* C21: once the reader or the writer of a registered session has closed its
\* health channel, the handler cancels the session context, then closes the
\* stream and unregisters the peer, each of these steps leaving the session
\* and the registration of the other peer as they are; afterwards the reader
\* and the writer of the session both terminate.
C21_SessionTornDown ==
    /\ [][\A s \in FairStreams :
            /\ (handler[s].at = "waiting" /\ handler'[s].at # "waiting")
                => HealthClosed(s) /\ handler'[s].cancelled
            /\ (handler[s].at # "done" /\ handler'[s].at = "done")
                => /\ handler'[s].cancelled /\ handler'[s].closed
                   /\ PeerOf(s) \notin connected'
            /\ (handler[s].at \in {"waiting", "cancelled", "closed"}
                    /\ handler'[s].at # handler[s].at)
                => \A o \in FairStreams \ {s} :
                        /\ handler'[o] = handler[o]
                        /\ reader'[o] = reader[o] /\ writer'[o] = writer[o]
                        /\ queued'[o] = queued[o] /\ wire'[o] = wire[o]
                        /\ (PeerOf(o) \in connected') = (PeerOf(o) \in connected)
       ]_vars
    /\ \A s \in FairStreams :
         HealthClosed(s)
            ~> (/\ handler[s].at = "done"
                /\ reader[s].at = "stopped" /\ writer[s].at = "stopped")

\* the session of peer 1 was torn down after a write error and its reader has
\* stopped too, while the session of peer 2 is registered and waiting
C21_Witness ==
    /\ handler[1].at = "done" /\ handler[1].cancelled /\ handler[1].closed
    /\ writer[1].writeErr /\ writer[1].at = "stopped"
    /\ reader[1].at = "stopped"
    /\ 1 \notin connected
    /\ handler[2].at = "waiting" /\ 2 \in connected
    /\ reader[2].at = "reading" /\ writer[2].at = "watching"

\* C22: a poll that fails because ctx was cancelled ends the poller without a
\* signal on comm; a poll that fails for any other reason signals comm exactly
\* once and ends the poller; a poll that succeeds forwards the snapshot and
\* the poller sleeps, then polls again.
C22_PollerOutcomes ==
    [][ /\ (poller.at = "calling" /\ poller'.at # "calling") =>
            CASE poller'.at = "processing" ->
                    poller'.polls = poller.polls + 1 /\ comm' = comm
              [] poller'.cause = "cancelled" ->
                    poller'.at = "dead" /\ comm' = comm
              [] OTHER ->
                    /\ poller'.at = "dead"
                    /\ comm'.closed /\ comm'.closes = comm.closes + 1
        /\ (poller.at = "processing" /\ poller'.at # "processing")
                => poller'.at = "sleeping" /\ poller.todo = {}
        /\ (poller.at = "sleeping" /\ poller' # poller) => poller'.at = "calling"
        /\ poller.at = "dead" => (poller' = poller /\ comm' = comm)
      ]_vars

\* C23: when the supervisor takes the poller's signal from comm, a poller is
\* polling again and the supervisor stays in its loop: the process goes on.
C23_SupervisorRestartsPoller ==
    [][ (supervisor.at = "select" /\ supervisor' # supervisor
            /\ supervisor'.woke = "comm")
          => /\ poller'.at = "calling"
             /\ supervisor'.at = "select"
      ]_vars

\* C24: after a shutdown signal the token is cancelled before the grace wait,
\* nothing is released until the wait is over, and the RPC client and the bus
\* client are both released before the exit.
C24_ShutdownOrder ==
    supervisor.woke = "interrupt" =>
        /\ ctx = "cancelled"
        /\ supervisor.at \in {"grace", "deferred"}
              => (resources.RPCClient = "open" /\ resources.Redis = "open")
        /\ supervisor.at \in {"released", "exited"}
              => (resources.RPCClient = "closed" /\ resources.Redis = "closed")

\* C25: with the token cancelled the event loop serves no request, also not
\* one that was waiting on a channel when the token was cancelled.
C25_NoRequestAfterCancel ==
    [][ ctx = "cancelled" =>
            /\ \A c \in Clients :
                 ~(clients[c].at = "sending" /\ clients'[c].at = "replied")
            /\ <<poolVars, last>>' = <<poolVars, last>>
      ]_vars

\* C26: once the event loop has returned no caller is left in the send of a
\* request, where nothing would ever receive it.
C26_NobodyBlockedForever ==
    actor = "returned" => \A c \in Clients : clients[c].at # "sending"

\* C27: decoding the encoding of a tx succeeds and gives a record whose
\* encoding is the bytes that were decoded.
C27_RoundTrip ==
    codec.at = "decoded" =>
        /\ ~codec.err
        /\ Len(codec.decoded) = 1
        /\ ToMessagePack(codec.decoded[1]).data = codec.data

\* C28: TopXWithHighGasPrice(x) and TopXWithLowGasPrice(x) never fail and
\* return the first min(x, Count) txs of the descending (ascending) list,
\* also for x above the number of txs in the pool and for an empty pool.
C28_TopXClamps ==
    [][ (answer' # answer /\ answer'.op \in TopXOps) =>
            LET txs == IF answer'.op = "TopXWithHighGasPrice"
                       THEN DescTxsByGasPrice ELSE AscTxsByGasPrice
                n == IF answer'.x < Len(txs) THEN answer'.x ELSE Len(txs)
            IN  /\ ~answer'.panic
                /\ answer'.result = SubSeq(txs, 1, n)
      ]_vars

\* C29: a tx that is not known is admitted whatever sender and nonce the txs
\* in the pool have, so two txs of one sender and nonce stay side by side; and
\* DuplicateTxs(h) is nil when h is not in the pool, else exactly the txs of
\* the pool with h's sender and nonce and another hash, each once.
C29_DuplicateTxs ==
    /\ [][ \A h \in Hashes :
             (last' # last /\ last'.op = "Add" /\ last'.hash = h
                 /\ h \notin DOMAIN Transactions /\ h \notin DroppedTxs)
               => /\ h \in DOMAIN Transactions'
                  /\ \A d \in DOMAIN Transactions :
                       (last'.victim = <<>> \/ last'.victim[1].Hash # d)
                          => d \in DOMAIN Transactions'
         ]_vars
    /\ [][ (answer' # answer /\ answer'.op = "DuplicateTxs" /\ answer.at # "got") =>
             IF answer'.x \in DOMAIN Transactions
             THEN answer'.at = "got"
             ELSE answer'.at = "done" /\ answer'.result = <<>>
         ]_vars
    /\ [][ (answer.op = "DuplicateTxs" /\ answer.at = "got" /\ answer'.at = "done") =>
             LET t == answer.target[1]
                 res == answer'.result
             IN  /\ \A h \in DOMAIN Transactions :
                       LET tx == Transactions[h]
                       IN  Cardinality({i \in 1..Len(res) : res[i] = tx})
                             = IF tx.From = t.From /\ tx.Nonce = t.Nonce
                                  /\ tx.Hash # t.Hash
                               THEN 1 ELSE 0
                 /\ \A i \in 1..Len(res) :
                       /\ res[i].Hash \in DOMAIN Transactions
                       /\ res[i] = Transactions[res[i].Hash]
                       /\ res[i].Hash # answer.x
         ]_vars

C29_Witness ==
    /\ {1, 2} \subseteq DOMAIN Transactions
    /\ answer.op = "DuplicateTxs" /\ answer.at = "done" /\ answer.x = 1
    /\ answer.result = <<Transactions[2]>>

\* C30, as stated: Prunables(tx) is the target and, each once, every other tx
\* of the sender's list with a nonce up to the target's; nothing else.
C30_Original ==
    [][ (answer.op = "Prunables" /\ answer.at = "got" /\ answer'.at = "done") =>
          LET t == answer.target[1]
              res == answer'.result
              others == {h \in DOMAIN Transactions :
                           /\ Transactions[h].From = t.From
                           /\ h # t.Hash
                           /\ Transactions[h].Nonce <= t.Nonce}
          IN  /\ Len(res) = 1 + Cardinality(others)
              /\ res[1] = t
              /\ \A h \in others :
                    Cardinality({i \in 2..Len(res) : res[i] = Transactions[h]}) = 1
      ]_vars

\* C30, amended: when the sender has no tx in the pool Prunables(tx) is nil;
\* otherwise it is the target and, each once, every other tx of the sender's
\* list with a nonce up to the target's, and nothing else.
C30_Prunables ==
    [][ (answer.op = "Prunables" /\ answer.at = "got" /\ answer'.at = "done") =>
          LET t == answer.target[1]
              res == answer'.result
              ofSender == {h \in DOMAIN Transactions : Transactions[h].From = t.From}
              others == {h \in ofSender : h # t.Hash /\ Transactions[h].Nonce <= t.Nonce}
          IN  IF ofSender = {}
              THEN res = <<>>
              ELSE /\ Len(res) = 1 + Cardinality(others)
                   /\ res[1] = t
                   /\ \A h \in others :
                         Cardinality({i \in 2..Len(res) : res[i] = Transactions[h]}) = 1
      ]_vars

C30_Witness ==
    /\ {1, 3} \subseteq DOMAIN Transactions
    /\ answer.op = "Prunables" /\ answer.at = "done" /\ answer.x = 3
    /\ answer.result = <<Transactions[3], Transactions[1]>>

\* C31: a status that came from a failed probe leads to no Remove: when the
\* pruner takes it from internalChan the pool is left as it is and the actor
\* sees no request and publishes nothing.
C31_KeepsOnProbeError ==
    [][ (/\ pruner.at = "select" /\ pruner.internalChan # <<>>
         /\ pruner'.internalChan = Tail(pruner.internalChan)
         /\ Head(pruner.internalChan).probe = "error")
          => /\ Transactions' = Transactions
             /\ last' = last
      ]_vars

\* C32: no Remove is issued for a prunable whose probe read an account nonce
\* not above the tx nonce: the tx stays in the pool.
C32_KeepsMineable ==
    [][ (/\ pruner.at = "select" /\ pruner.internalChan # <<>>
         /\ pruner'.internalChan = Tail(pruner.internalChan)
         /\ Head(pruner.internalChan).probe = "mineable")
          => /\ Transactions' = Transactions
             /\ last' = last
      ]_vars

\* C33: the prunables collected for one batch hold no tx twice, so no tx is
\* submitted to the worker pool twice for a batch; and the per-sender cache is
\* empty whenever the pruner waits for the next batch.
C33_NoDuplicateProbes ==
    /\ \A i, j \in 1..Len(pruner.prunables) :
          pruner.prunables[i] = pruner.prunables[j] => i = j
    /\ pruner.at = "select" => DOMAIN pruner.alreadyAddedFromA = {}

\* C34: no lock of the pool is held while a probe of the node is outstanding,
\* so that Add and Remove are served during the probes.
C34_NoLockAcrossProbes ==
    ~(confirmer.rlocked /\ confirmer.jobs # {})

\* ---- a reader holding the slice a List or TxsFromA request returned ----
\* variant: the index itself is sent to the reader
copied_Alias(txs) == [alias |-> TRUE, txs |-> txs]

\* copied := make([]*MemPoolTx, n); copy(copied, list): a slice of the
\* reader's own over the same tx records
copied(txs) == [alias |-> FALSE, txs |-> txs]

\* the index a request reads
sourceOf(p, of) ==
    IF of.op = "List" THEN listTxs(p, of.order) ELSE txsFromAReply(p, of.addr)

HashesOf(txs) == {txs[i].Hash : i \in DOMAIN txs}

\* what the reader finds behind its slice once the actor has moved the pool
\* to q and written the fields of `marked`: its elements are pointers, so
\* the record still in the pool (live) is the one the actor wrote to
seenAfter(h, q, marked) ==
    IF h.at = "none" THEN h
    ELSE IF h.alias
    THEN [h EXCEPT !.txs = sourceOf(q, h.of), !.live = HashesOf(sourceOf(q, h.of))]
    ELSE [h EXCEPT
            !.txs = [i \in DOMAIN h.txs |->
                        IF marked # <<>> /\ h.txs[i].Hash \in h.live
                           /\ h.txs[i].Hash = marked[1].Hash
                        THEN marked[1] ELSE h.txs[i]],
            !.live = h.live \cap DOMAIN q.Transactions]

\* the struct of tx.Hash after a store through its pointer: the map and
\* every list reference the one struct
stored(p, tx) ==
    LET through(txs) == [i \in DOMAIN txs |-> IF txs[i].Hash = tx.Hash THEN tx ELSE txs[i]]
    IN  [p EXCEPT
            !.Transactions =
                [h \in DOMAIN p.Transactions |->
                    IF h = tx.Hash THEN tx ELSE p.Transactions[h]],
            !.AscTxsByGasPrice = through(p.AscTxsByGasPrice),
            !.DescTxsByGasPrice = through(p.DescTxsByGasPrice),
            !.TxsFromAddress =
                [a \in DOMAIN p.TxsFromAddress |-> through(p.TxsFromAddress[a])]]

\* txRemover: tx.Pool = "dropped" or tx.Pool = "confirmed", the first of its
\* two stores
markedAs(tx, status) ==
    IF status = "DROPPED" THEN [tx EXCEPT !.Pool = "dropped"]
    ELSE IF status = "CONFIRMED" THEN [tx EXCEPT !.Pool = "confirmed"]
    ELSE tx

\* what a load of a field gives while the actor stores to it under no lock:
\* the value the field had when the slice was received, the value in
\* memory, or a mix of the words of both
racyLoad(old, new, torn) == IF old = new THEN {new} ELSE {old, new, torn}

\* p.ListTxs(order) / p.TxsFromA(addr) answered by the actor (which is in no
\* other case of its select meanwhile)
Snapshot(of) ==
    /\ held.at = "none" /\ held.remover.at = "idle"
    /\ LET c == copied(sourceOf(Pool, of))
       IN  held' = [held EXCEPT !.at = "held", !.of = of, !.alias = c.alias,
                                !.txs = c.txs, !.live = HashesOf(c.txs),
                                !.first = c.txs, !.read = <<>>]
    /\ last' = [NoReply EXCEPT
            !.op = of.op, !.order = of.order, !.addr = of.addr,
            !.txs = sourceOf(Pool, of)]
    /\ UNCHANGED <<poolVars, PendingPoolSize, now, adds, pruner, confirmer,
                   lockedVars, gossipVars, mainVars, queryVars>>

\* the reader is done with the slice
Snapshot_Release ==
    /\ held.at = "held"
    /\ held' = [NoHeld EXCEPT !.remover = held.remover]
    /\ UNCHANGED <<actorVars, pruner, confirmer, lockedVars, gossipVars, mainVars, queryVars>>

\* the reader loads the mutable fields of a tx of its slice, the last use
\* it makes of the slice
Held_Read(i) ==
    /\ held.at = "held" /\ i \in DOMAIN held.txs /\ i \in DOMAIN held.first
    /\ \E pool \in racyLoad(held.first[i].Pool, held.txs[i].Pool, "torn"),
          d \in racyLoad(held.first[i].DroppedAt, held.txs[i].DroppedAt, -1),
          c \in racyLoad(held.first[i].ConfirmedAt, held.txs[i].ConfirmedAt, -1) :
          held' = [NoHeld EXCEPT
                        !.remover = held.remover,
                        !.read = <<[held.txs[i] EXCEPT
                                      !.Pool = pool, !.DroppedAt = d, !.ConfirmedAt = c]>>]
    /\ UNCHANGED <<actorVars, pruner, confirmer, lockedVars, gossipVars, mainVars, queryVars>>

\* an Add request served while the slice is held
Held_Add(h, out) ==
    /\ held.remover.at = "idle"
    /\ txAdder(PoolTx(h), out)
    /\ held' = seenAfter(held, Pool', last'.victim)
    /\ UNCHANGED <<pruner, confirmer, lockedVars, gossipVars, mainVars, queryVars>>

\* a Remove request served while the slice is held: txRemover looks the tx
\* up, replies false when the map does not hold it, and else stores
\* tx.Pool for a DROPPED or CONFIRMED status
Held_Remove(h, status) ==
    /\ held.remover.at = "idle"
    /\ IF h \notin DOMAIN Transactions
       THEN /\ last' = [NoReply EXCEPT !.op = "Remove", !.hash = h, !.status = status]
            /\ adds' = [inOrder |-> FALSE, hashes |-> {}]
            /\ UNCHANGED <<poolVars, held>>
       ELSE LET tx == Transactions[h]
                marked == markedAs(tx, status)
                seen == seenAfter(held, stored(Pool, marked), <<marked>>)
            IN  /\ SetPool(stored(Pool, marked))
                /\ held' = [seen EXCEPT !.remover =
                        [at |-> IF marked = tx THEN "stamped" ELSE "marked",
                         status |-> status, tx |-> <<marked>>]]
                /\ UNCHANGED <<last, adds>>
    /\ UNCHANGED <<PendingPoolSize, now, pruner, confirmer, lockedVars, gossipVars,
                   mainVars, queryVars>>

\* txRemover: tx.DroppedAt = time.Now().UTC() or tx.ConfirmedAt = time.Now().UTC()
Held_Remove_Stamp ==
    /\ held.remover.at = "marked"
    /\ \E t \in Clock :
        LET marked == stampRemoved(held.remover.tx[1], held.remover.status, t)
            seen == seenAfter(held, stored(Pool, marked), <<marked>>)
        IN  /\ SetPool(stored(Pool, marked))
            /\ now' = t
            /\ held' = [seen EXCEPT !.remover.at = "stamped", !.remover.tx = <<marked>>]
    /\ UNCHANGED <<PendingPoolSize, last, adds, pruner, confirmer, lockedVars, gossipVars,
                   mainVars, queryVars>>

\* txRemover: removeTx(tx), p.PublishRemoved(ctx, p.PubSub, tx), and the reply
Held_Remove_removeTx(out) ==
    /\ held.remover.at = "stamped"
    /\ LET marked == held.remover.tx[1]
           seen == seenAfter(held, removed(Pool, marked), <<marked>>)
       IN  /\ SetPool(removed(Pool, marked))
           /\ last' = [NoReply EXCEPT
                   !.op = "Remove", !.hash = marked.Hash, !.status = held.remover.status,
                   !.ok = replyAfterPublish(out),
                   !.published = PublishRemoved(marked, out), !.bus = out,
                   !.tx = <<marked>>]
           /\ held' = [seen EXCEPT !.remover = NoRemover]
    /\ adds' = [inOrder |-> FALSE, hashes |-> {}]
    /\ UNCHANGED <<PendingPoolSize, now, pruner, confirmer, lockedVars, gossipVars,
                   mainVars, queryVars>>

\* the txs sent to the pool while a reader holds a slice: two of one sender
\* and one of the other
SnapshotTxs == {1, 3, 4}

\* the serializer works or fails while a reader holds a slice
SnapshotOutcomes == {"ok", "marshal_error"}

SnapshotSources ==
    {[op |-> "List", order |-> o, addr |-> 0] : o \in {"ASC", "DESC"}}
        \cup {[op |-> "TxsFromA", order |-> "", addr |-> a] : a \in Addresses}

\* the pool at its smallest and at its largest explored capacity
InitSnapshot ==
    /\ ActorInit(MaxTime) /\ PendingPoolSize \in {1, MaxPoolSize}
    /\ LockedInit /\ GossipInit /\ MainInit /\ ActorStarted /\ QueryInit /\ CallerInit

NextSnapshot ==
    \/ \E of \in SnapshotSources : Snapshot(of)
    \/ Snapshot_Release
    \/ \E h \in SnapshotTxs, out \in SnapshotOutcomes : Held_Add(h, out)
    \/ \E i \in 1..MaxPoolSize : Held_Read(i)
    \/ \E h \in SnapshotTxs, st \in Statuses : Held_Remove(h, st)
    \/ Held_Remove_Stamp
    \/ \E out \in SnapshotOutcomes : Held_Remove_removeTx(out)

SpecSnapshot == InitSnapshot /\ [][NextSnapshot]_vars


\* C35: the slice a List or TxsFromA request returned keeps its length and
\* its order while Add and Remove requests are served, and a Remove of a tx
\* it references is seen through it (the records are shared).
C35_SnapshotIsCopyOfSequence ==
    [][ (held.at = "held" /\ held'.at = "held")
        => /\ Len(held'.txs) = Len(held.txs)
           /\ \A i \in DOMAIN held.txs : held'.txs[i].Hash = held.txs[i].Hash
           /\ (last'.op = "Remove" /\ last'.tx # <<>> /\ last'.hash \in held.live)
                => \E i \in DOMAIN held'.txs : held'.txs[i] = last'.tx[1] ]_vars

\* a held slice still lists a tx that a later Remove took out of the pool,
\* with the status that Remove wrote
C35_Witness ==
    /\ held.at = "held"
    /\ \E i \in DOMAIN held.txs :
        /\ held.txs[i].Hash \notin DOMAIN Transactions
        /\ held.txs[i].Pool \in {"confirmed", "dropped"}
    /\ Len(held.txs) # Len(sourceOf(Pool, held.of))

\* C36: no two streams of one peer have a running session (a registered
\* handler with its reader and its writer) at the same time.
C36_OneSessionPerPeer ==
    \A s, s2 \in Streams :
        (s # s2 /\ PeerOf(s) = PeerOf(s2))
            => ~(handler[s].at = "waiting" /\ handler[s2].at = "waiting")

\* C37: the writer of a stream puts the frame of a message on the stream at
\* most once, in the watch branch and in the timed drain loop.
C37_WrittenAtMostOnce ==
    \A s \in Streams : \A i, j \in 1..Len(wire[s]) :
        wire[s][i] = wire[s][j] => i = j

\* the hashes the reader's slice shows as taken out by a Remove, neither in
\* the pool nor evicted since
RemovedEarlier ==
    {held.txs[i].Hash : i \in {j \in DOMAIN held.txs :
                                 held.txs[j].Pool \in {"confirmed", "dropped"}}}
        \ (InPool \cup DroppedTxs)

\* a tombstone is only made by the eviction of an accepted Add, and an
\* accepted Remove leaves none for its hash
OnlyEvictionTombstones ==
    /\ DroppedTxs' # DroppedTxs
        => /\ last'.op = "Add" /\ last'.ok /\ Len(last'.victim) = 1
           /\ DroppedTxs' = DroppedTxs \cup {last'.victim[1].Hash}
    /\ (last'.op = "Remove" /\ last'.ok) => last'.hash \notin DroppedTxs'

\* C38 as stated: only an eviction creates a tombstone, a hash taken out by
\* an accepted Remove is no tombstone, and a later Add of it is accepted and
\* publishes a pending-entry event.
C38_Original ==
    [][ /\ OnlyEvictionTombstones
        /\ (last'.op = "Add" /\ last'.hash \in RemovedEarlier)
            => /\ last'.ok /\ last'.hash \in InPool'
               /\ last'.published =
                    <<[topic |-> "pending_pool_entry", tx |-> last'.tx[1]]>> ]_vars

\* C38 amended: only an eviction creates a tombstone, a hash taken out by an
\* accepted Remove is no tombstone, and a later Add of it is accepted and
\* publishes a pending-entry event unless serializing the tx fails.
C38_RemovedIsReadmitted ==
    [][ /\ OnlyEvictionTombstones
        /\ (last'.op = "Add" /\ last'.hash \in RemovedEarlier)
            => /\ last'.ok /\ last'.hash \in InPool'
               /\ last'.published =
                    IF last'.bus = "marshal_error" THEN <<>>
                    ELSE <<[topic |-> "pending_pool_entry", tx |-> last'.tx[1]]>> ]_vars

\* a tx the reader saw confirmed is in the pool again as pending and its
\* entry event was published a second time
C38_Witness ==
    /\ last.op = "Add" /\ last.ok /\ last.hash \in InPool
    /\ last.hash \notin DroppedTxs
    /\ \E i \in DOMAIN held.txs :
        held.txs[i].Hash = last.hash /\ held.txs[i].Pool = "confirmed"
    /\ Transactions[last.hash].Pool = "pending"
    /\ Len(last.published) = 1

\* an accepted Add that evicted a tx hands no event but events of the
\* incoming tx, the victim is the record the map held, and a reader holding
\* the victim finds every field of it as it was
EvictionIsSilent ==
    /\ \A i \in DOMAIN last'.published :
        /\ last'.published[i].topic = "pending_pool_entry"
        /\ last'.published[i].tx = last'.tx[1]
    /\ last'.victim[1] = Transactions[last'.victim[1].Hash]
    /\ last'.victim[1].Pool = "pending"
    /\ \A i \in DOMAIN held.txs :
        (held.at = "held" /\ held.txs[i].Hash = last'.victim[1].Hash)
            => held'.txs[i] = held.txs[i]

\* C39 as stated: an Add that evicts a victim publishes exactly one event,
\* the pending-entry of the incoming tx, none for the victim, and leaves the
\* victim's pool field and timestamps unchanged.
C39_Original ==
    [][ (last' # last /\ last'.op = "Add" /\ last'.ok /\ Len(last'.victim) = 1)
        => /\ Len(last'.published) = 1
           /\ EvictionIsSilent ]_vars

\* C39 amended: an Add that evicts a victim publishes exactly one event, the
\* pending-entry of the incoming tx, or none when serializing the incoming tx
\* fails; none for the victim, whose pool field and timestamps are left
\* unchanged.
C39_EvictionPublishesEntryOnly ==
    [][ (last' # last /\ last'.op = "Add" /\ last'.ok /\ Len(last'.victim) = 1)
        => /\ Len(last'.published) = (IF last'.bus = "marshal_error" THEN 0 ELSE 1)
           /\ EvictionIsSilent ]_vars

\* a reader holds a tx that an Add has since evicted: it is a tombstone, out
\* of the pool, still marked pending, and the one event is the incoming tx's
C39_Witness ==
    /\ last.op = "Add" /\ last.ok /\ Len(last.victim) = 1
    /\ last.victim[1].Hash \in DroppedTxs \ InPool
    /\ held.at = "held"
    /\ \E i \in DOMAIN held.txs :
        held.txs[i] = last.victim[1] /\ held.txs[i].Pool = "pending"
    /\ Len(last.published) = 1 /\ last.published[1].tx.Hash = last.hash

\* C40: an Add of a new tx to a full pool is accepted whatever its gas
\* price: the victim is a tx that was in the pool, never the incoming one,
\* and the incoming tx is in the pool afterwards.
C40_IncomingAlwaysAdmitted ==
    [][ (last'.op = "Add" /\ last'.hash \notin (InPool \cup DroppedTxs)
            /\ Cardinality(InPool) >= PendingPoolSize)
        => /\ last'.ok /\ last'.hash \in InPool'
           /\ Transactions'[last'.hash] = last'.tx[1]
           /\ Len(last'.victim) = 1
           /\ last'.victim[1].Hash \in InPool \ InPool'
           /\ last'.victim[1].Hash # last'.hash ]_vars

\* the pool of size 2 took in a tx priced below its victim and below the tx
\* that stays
C40_Witness ==
    /\ last.op = "Add" /\ last.ok /\ Len(last.victim) = 1
    /\ PendingPoolSize = 2 /\ Cardinality(InPool) = 2
    /\ last.hash \in InPool
    /\ last.tx[1].GasPrice < last.victim[1].GasPrice
    /\ \A h \in InPool \ {last.hash} :
        Transactions[h].GasPrice > Transactions[last.hash].GasPrice

====
